---- MODULE Spec2Model ----
(***************************************************************************)
(* A model of img2pdf's layout and pagination engine (generatePdf and its  *)
(* helpers in src/utils/pdfGenerator.js, the grid validation utilities and *)
(* the page count of the App component).                                   *)
(*                                                                         *)
(* JavaScript numbers are IEEE 754 binary64 values.  The layout arithmetic *)
(* divides and multiplies by numbers that are not dyadic (cols, 3.78), so  *)
(* every result is rounded; the model keeps that rounding.  A number is a  *)
(* record [sgn, m, e] standing for sgn * m * 2^e, where m is a 53-bit      *)
(* mantissa held as a little-endian sequence of 14-bit limbs (TLC's own    *)
(* integers are 32 bits wide).  Overflow, subnormals, NaN and infinities   *)
(* cannot arise from the magnitudes the layout handles and are not         *)
(* modelled.                                                               *)
(***************************************************************************)
EXTENDS Integers, Sequences, FiniteSets, TLC

(***************************************************************************)
(* Multi-limb naturals: little-endian sequences of limbs below LimbBase,   *)
(* without leading zero limbs                                              *)
(***************************************************************************)
LimbBits == 14
LimbBase == 2^LimbBits

\* The width of a binary64 significand.
MantBits == 53

\* limb j of a, zero beyond its length
L(a, j) == IF j >= 1 /\ j <= Len(a) THEN a[j] ELSE 0

\* the index of the highest nonzero limb
BTop(a) == Cardinality({j \in 1..Len(a) : \E k \in j..Len(a) : a[k] # 0})

BStrip(a) == SubSeq(a, 1, BTop(a))

\* a natural below 2^31
BFromNat(n) == BStrip(<<n % LimbBase, (n \div LimbBase) % LimbBase, n \div (LimbBase * LimbBase)>>)

BToNat(a) == L(a, 1) + LimbBase * L(a, 2) + LimbBase * LimbBase * L(a, 3)

BMaxLen(a, b) == IF Len(a) < Len(b) THEN Len(b) ELSE Len(a)

\* The limbs of the number whose digit of weight LimbBase^(j-1) is cols[j],
\* from digit j on, with carry c into it.  A digit may exceed a limb or be
\* negative (the number itself is not).
RECURSIVE Carry(_, _, _)
Carry(cols, j, c) ==
  IF j > Len(cols) THEN (IF c = 0 THEN <<>> ELSE <<c>>)
  ELSE <<(cols[j] + c) % LimbBase>> \o Carry(cols, j + 1, (cols[j] + c) \div LimbBase)

BAdd(a, b) == Carry(<<>> \o [j \in 1..BMaxLen(a, b) |-> L(a, j) + L(b, j)], 1, 0)

\* a - b for a >= b
BSub(a, b) == BStrip(Carry(<<>> \o [j \in 1..Len(a) |-> a[j] - L(b, j)], 1, 0))

\* -1, 0, 1 as a < b, a = b, a > b
BCmp(a, b) ==
  IF Len(a) < Len(b) THEN -1
  ELSE IF Len(a) > Len(b) THEN 1
  ELSE IF \A j \in 1..Len(a) : a[j] = b[j] THEN 0
  ELSE IF \E j \in 1..Len(a) : a[j] < b[j] /\ \A l \in (j + 1)..Len(a) : a[l] = b[l] THEN -1
  ELSE 1

\* a * k for a limb-sized k
BMulSmall(a, k) == BStrip(Carry(<<>> \o [j \in 1..Len(a) |-> a[j] * k], 1, 0))

\* the sum of the limb products of weight LimbBase^(k-1), for mantissas
\* (four limbs at most)
MulColumn(a, b, k) ==
  L(a, 1) * L(b, k) + L(a, 2) * L(b, k - 1) + L(a, 3) * L(b, k - 2) + L(a, 4) * L(b, k - 3)

\* a * b for mantissas
BMul(a, b) == BStrip(Carry(<<>> \o [k \in 1..7 |-> MulColumn(a, b, k)], 1, 0))

BZeros(n) == [j \in 1..n |-> 0]

\* a * 2^s for s < LimbBits
ShlBits(a, s) ==
  [j \in 1..(Len(a) + 1) |->
     ((L(a, j) * 2^s) % LimbBase) + (L(a, j - 1) \div 2^(LimbBits - s))]

\* a * 2^n
BShl(a, n) == BStrip(BZeros(n \div LimbBits) \o ShlBits(a, n % LimbBits))

\* a \div 2^s for s < LimbBits
ShrBits(a, s) ==
  [j \in 1..Len(a) |-> (a[j] \div 2^s) + (L(a, j + 1) % 2^s) * 2^(LimbBits - s)]

\* << a \div 2^n, whether a nonzero bit was shifted out >>
BShr(a, n) ==
  << BStrip(ShrBits(SubSeq(a, n \div LimbBits + 1, Len(a)), n % LimbBits)),
     \/ (L(a, n \div LimbBits + 1) % 2^(n % LimbBits)) # 0
     \/ \E j \in 1..Len(a) : j <= n \div LimbBits /\ a[j] # 0 >>

\* the number of bits of a limb
NatBits(n) == Cardinality({k \in 0..(LimbBits - 1) : 2^k <= n})

\* the number of bits of a
BBits(a) == IF a = <<>> THEN 0 ELSE LimbBits * (Len(a) - 1) + NatBits(a[Len(a)])

BOdd(a) == a # <<>> /\ a[1] % 2 = 1

(***************************************************************************)
(* binary64 arithmetic: every operation returns the exact result rounded   *)
(* to nearest, ties to even.                                               *)
(***************************************************************************)
Zero == [sgn |-> 0, m |-> <<>>, e |-> 0]

\* A mantissa that rounding up carried to MantBits + 1 bits is 2^MantBits
Renormalize(sgn, m, e) ==
  IF BBits(m) > MantBits
  THEN [sgn |-> sgn, m |-> BShr(m, 1)[1], e |-> e + 1]
  ELSE [sgn |-> sgn, m |-> m, e |-> e]

\* Round to nearest, ties to even: up when the guard bit is set and either
\* a lower bit was set or the mantissa is odd
RoundGuard(sgn, mant, guard, st, e) ==
  Renormalize(sgn, IF guard /\ (st \/ BOdd(mant)) THEN BAdd(mant, <<1>>) ELSE mant, e)

\* s1 is the value shifted down to MantBits + 1 bits (mantissa and guard bit)
RoundShifted(sgn, s1, e, sticky) ==
  RoundGuard(sgn, BShr(s1[1], 1)[1], BOdd(s1[1]), sticky \/ s1[2], e)

RoundBits(sgn, N, e, sticky, bits) ==
  IF bits <= MantBits
  THEN [sgn |-> sgn, m |-> BShl(N, MantBits - bits), e |-> e - (MantBits - bits)]
  ELSE RoundShifted(sgn, BShr(N, bits - MantBits - 1), e + (bits - MantBits), sticky)

\* The double nearest to sgn * (N + f) * 2^e, where 0 <= f < 1 and f > 0
\* exactly when sticky.  When sticky, N has more than MantBits + 1 bits.
Round(sgn, N, e, sticky) ==
  IF N = <<>> THEN Zero ELSE RoundBits(sgn, N, e, sticky, BBits(N))

Abs(n) == IF n < 0 THEN -n ELSE n
Sign(n) == IF n < 0 THEN -1 ELSE IF n > 0 THEN 1 ELSE 0

\* An integer as a number
Num(n) == Round(Sign(n), BFromNat(Abs(n)), 0, FALSE)

FNeg(a) == [a EXCEPT !.sgn = -a.sgn]

FMul(a, b) ==
  IF a.sgn = 0 \/ b.sgn = 0 THEN Zero
  ELSE Round(a.sgn * b.sgn, BMul(a.m, b.m), a.e + b.e, FALSE)

\* Long division of mantissas, a limb of quotient at a time.  The divisor d
\* is a mantissa shifted up to four full limbs, so the quotient of the top
\* two limbs of the remainder by the top limb of d is the next quotient limb
\* or exceeds it by at most two.
DivEstimate(r, d) ==
  IF (L(r, 5) * LimbBase + L(r, 4)) \div d[4] < LimbBase
  THEN (L(r, 5) * LimbBase + L(r, 4)) \div d[4]
  ELSE LimbBase - 1

DivDigit(r, d, qhat) ==
  IF BCmp(BMulSmall(d, qhat), r) <= 0 THEN qhat
  ELSE IF BCmp(BMulSmall(d, qhat - 1), r) <= 0 THEN qhat - 1
  ELSE qhat - 2

DivTake(q, r, d, digit) == << <<digit>> \o q, BSub(r, BMulSmall(d, digit)) >>

\* qr is << quotient so far, remainder >>, the remainder below d
DivStep(qr, d) ==
  IF qr[2] = <<>> THEN << <<0>> \o qr[1], <<>> >>
  ELSE DivTake(qr[1], <<0>> \o qr[2], d,
               DivDigit(<<0>> \o qr[2], d, DivEstimate(<<0>> \o qr[2], d)))

\* the integer part of n / d (0 or 1) and what is left of n
DivFirst(n, d) ==
  IF BCmp(n, d) >= 0 THEN << <<1>>, BSub(n, d) >> ELSE << <<0>>, n >>

DivRound(sgn, qr, e) == Round(sgn, BStrip(qr[1]), e, qr[2] # <<>>)

DivMantissas(n, d) == DivStep(DivStep(DivStep(DivStep(DivFirst(n, d), d), d), d), d)

\* a / b for b # 0 (no division of the layout has a zero divisor): the
\* quotient of the mantissas to four limbs below the binary point, with the
\* remainder as the sticky bit
FDiv(a, b) ==
  IF a.sgn * b.sgn = 0 THEN Zero
  ELSE DivRound(a.sgn * b.sgn,
                DivMantissas(BShl(a.m, 4 * LimbBits - MantBits), BShl(b.m, 4 * LimbBits - MantBits)),
                a.e - b.e - 4 * LimbBits)

\* The sum of sa * A and sb * B (A, B > 0) as a sign and a magnitude
SumSign(sa, sb, c) == IF sa = sb \/ c > 0 THEN sa ELSE IF c = 0 THEN 0 ELSE sb
SumMag(sa, A, sb, B, c) ==
  IF sa = sb THEN BAdd(A, B) ELSE IF c >= 0 THEN BSub(A, B) ELSE BSub(B, A)

FAddAligned(sa, A, sb, B, lo) ==
  Round(SumSign(sa, sb, BCmp(A, B)), SumMag(sa, A, sb, B, BCmp(A, B)), lo, FALSE)

FAddAt(a, b, lo) == FAddAligned(a.sgn, BShl(a.m, a.e - lo), b.sgn, BShl(b.m, b.e - lo), lo)

FAdd(a, b) ==
  IF a.sgn = 0 THEN b
  ELSE IF b.sgn = 0 THEN a
  ELSE FAddAt(a, b, IF a.e < b.e THEN a.e ELSE b.e)

FSub(a, b) == FAdd(a, FNeg(b))

\* a - b is zero only when a = b, so its sign orders a and b
FLe(a, b) == FSub(a, b).sgn <= 0
FLt(a, b) == FSub(a, b).sgn < 0

\* Math.min
FMin(a, b) == IF FLe(a, b) THEN a ELSE b

\* Math.floor and Math.ceil of a number >= 0 with a negative exponent (every
\* quotient of two small naturals has one), as an integer
MathFloor(x) == IF x.sgn = 0 THEN 0 ELSE BToNat(BShr(x.m, -x.e)[1])

CeilOf(s) == BToNat(s[1]) + (IF s[2] THEN 1 ELSE 0)
MathCeil(x) == IF x.sgn = 0 THEN 0 ELSE CeilOf(BShr(x.m, -x.e))

(***************************************************************************)
(* src/utils/pdfGenerator.js: constants and helpers                        *)
(***************************************************************************)
MARGIN_MM == 6
GAP_MM == 2

A4_PORTRAIT == [width |-> 210, height |-> 297]
A4_LANDSCAPE == [width |-> 297, height |-> 210]

\* the literal 3.78
PX_PER_MM == FDiv(Num(378), Num(100))

\* the literal 0.5
Half == FDiv(Num(1), Num(2))

\* hexToRgb on the colours the model draws from; a string the pattern does
\* not match gives black
hexToRgb(hex) ==
  CASE hex = "#c4c4c4" -> <<196, 196, 196>>
    [] hex = "#ff0000" -> <<255, 0, 0>>
    [] OTHER -> <<0, 0, 0>>

\* renderWMm and renderHMm of an image drawn at scale
RenderAtScale(imgWPx, imgHPx, scale) ==
  [renderWMm |-> FDiv(FMul(Num(imgWPx), scale), PX_PER_MM),
   renderHMm |-> FDiv(FMul(Num(imgHPx), scale), PX_PER_MM)]

\* Math.max
FMax(a, b) == IF FLe(a, b) THEN b ELSE a

\* A fit without the clamp of the scale to 1.0
calculateImageRenderSizeUnclamped(imgWPx, imgHPx, cellWMm, cellHMm) ==
  RenderAtScale(imgWPx, imgHPx,
    FMin(FDiv(FMul(cellWMm, PX_PER_MM), Num(imgWPx)),
         FDiv(FMul(cellHMm, PX_PER_MM), Num(imgHPx))))

\* A fit that covers the cell: the larger of scaleX and scaleY
calculateImageRenderSizeCover(imgWPx, imgHPx, cellWMm, cellHMm) ==
  RenderAtScale(imgWPx, imgHPx,
    FMin(FMax(FDiv(FMul(cellWMm, PX_PER_MM), Num(imgWPx)),
              FDiv(FMul(cellHMm, PX_PER_MM), Num(imgHPx))),
         Num(1)))

\* A fit that scales each dimension on its own
calculateImageRenderSizeStretched(imgWPx, imgHPx, cellWMm, cellHMm) ==
  [renderWMm |-> FDiv(FMul(Num(imgWPx),
                           FMin(FDiv(FMul(cellWMm, PX_PER_MM), Num(imgWPx)), Num(1))),
                      PX_PER_MM),
   renderHMm |-> FDiv(FMul(Num(imgHPx),
                           FMin(FDiv(FMul(cellHMm, PX_PER_MM), Num(imgHPx)), Num(1))),
                      PX_PER_MM)]

\* scaleX = cellWPx / imgWPx, scaleY = cellHPx / imgHPx,
\* scale = Math.min(Math.min(scaleX, scaleY), 1.0)
calculateImageRenderSize(imgWPx, imgHPx, cellWMm, cellHMm) ==
  RenderAtScale(imgWPx, imgHPx,
    FMin(FMin(FDiv(FMul(cellWMm, PX_PER_MM), Num(imgWPx)),
              FDiv(FMul(cellHMm, PX_PER_MM), Num(imgHPx))),
         Num(1)))

PageSize(o) == IF o = "landscape" THEN A4_LANDSCAPE ELSE A4_PORTRAIT

usableW(o) == PageSize(o).width - 2 * MARGIN_MM
usableH(o) == PageSize(o).height - 2 * MARGIN_MM

\* cellW and cellH of generatePdf
CellW(c, o) == FDiv(Num(usableW(o) - (c - 1) * GAP_MM), Num(c))
CellH(r, o) == FDiv(Num(usableH(o) - (r - 1) * GAP_MM), Num(r))

\* A page count that drops the partly filled last page (Math.floor)
PageCountFloor(n, imagesPerPage) == MathFloor(FDiv(Num(n), Num(imagesPerPage)))

\* Math.ceil(images.length / imagesPerPage)
PageCountOf(n, imagesPerPage) == MathCeil(FDiv(Num(n), Num(imagesPerPage)))

(***************************************************************************)
(* generatePdf as a state machine.  The arguments are drawn by Init; pc is *)
(* the position in the function body.  doc is the jsPDF document: the      *)
(* number of its pages and the commands it accepted, each stamped with the *)
(* page it drew on.  An addImage command also records the loop locals      *)
(* (row, col, cellX, cellY, cellW, cellH) of the iteration that issued it, *)
(* and a console warning the index of the image and the page of the loop.  *)
(***************************************************************************)
VARIABLES images, rows, cols, orientation, gridEnabled, gridColor, gridThickness,
          sink, pc, page, i, locals, doc, console, result, call

\* The state of the App component: the loaded image list (its state `images`),
\* the image order, the preview, the generating flag, the error and warning lists, the
\* drops whose files are still loading, the pending generation timers, and
\* the numbers of drops, Generate clicks and changes of the order so far
VARIABLES loadedImages, imageOrder, pdfUrl, isGenerating, errors, warnings, loads,
          timers, used, settings, prevPdfUrlRef, isGeneratingRef, objectUrls,
          downloads, limits

args == <<images, rows, cols, orientation, gridEnabled, gridColor, gridThickness, sink>>
appVars == <<loadedImages, imageOrder, pdfUrl, isGenerating, errors, warnings, loads,
             timers, used, settings, prevPdfUrlRef, isGeneratingRef, objectUrls,
             downloads, limits>>
vars == <<images, rows, cols, orientation, gridEnabled, gridColor, gridThickness,
          sink, pc, page, i, locals, doc, console, result, call, appVars>>

\* No preview
NoUrl == [null |-> TRUE]

\* No user event and no dropped file
NoLimits ==
  [drops |-> 0, loads |-> 0, clicks |-> 0, orders |-> 0, changes |-> 0, downloads |-> 0,
   events |-> {}, sinks |-> {}]

\* The state of the App component after its first render; objectUrls is the
\* blob URL store of the browser (the number of URLs created so far and the
\* URLs not revoked), downloads the URLs handed to the download link, used
\* the number of user events so far
AppState ==
  /\ loadedImages = <<>>
  /\ imageOrder = "same"
  /\ settings = [rows |-> 4, cols |-> 1]
  /\ pdfUrl = NoUrl
  /\ isGenerating = FALSE
  /\ prevPdfUrlRef = NoUrl
  /\ isGeneratingRef = FALSE
  /\ errors = <<>>
  /\ warnings = <<>>
  /\ loads = <<>>
  /\ timers = <<>>
  /\ objectUrls = [created |-> 0, live |-> {}]
  /\ downloads = <<>>
  /\ used = [drops |-> 0, clicks |-> 0, orders |-> 0, changes |-> 0, downloads |-> 0]

\* The App component after its first render, left alone
AppInit == AppState /\ limits = NoLimits

\* Bounds of the inputs
MaxImages == 2
MaxBatch == 5
MaxRows == 2
MaxCols == 2

\* The least column count whose cell width is not positive on a portrait page
TooManyCols == (A4_PORTRAIT.width - 2 * MARGIN_MM + GAP_MM) \div GAP_MM

\* Image records: intrinsic pixel size and whether jsPDF can decode the payload.
\* 0 x 600 is an image whose width is missing or zero.
MixedKinds ==
  { [wPx |-> 0,    hPx |-> 600, payloadOk |-> TRUE],
    [wPx |-> 100,  hPx |-> 50,  payloadOk |-> TRUE],
    [wPx |-> 640,  hPx |-> 480, payloadOk |-> FALSE] }

ImageKinds ==
  MixedKinds \cup { [wPx |-> 100,  hPx |-> -50, payloadOk |-> TRUE],
                    [wPx |-> 1220, hPx |-> 800, payloadOk |-> TRUE] }

\* Every sequence of up to MaxImages images of the mixed kinds, and uniform
\* batches of every kind up to MaxBatch
ImageSeqs ==
  UNION { [1..n -> MixedKinds] : n \in 0..MaxImages }
  \cup UNION { { [j \in 1..n |-> k] : k \in ImageKinds } : n \in 1..MaxBatch }

Orientations == {"portrait", "landscape"}
\* "unset" stands for a gridEnabled that was not passed (undefined)
Styles == {"unset", "none", "solid", "dashed"}

\* A column count whose cell width (31.33.. mm in portrait) is no binary fraction
ThirdsCols == 6

\* A sink that accepts every command
NoFaults == [rejects |-> {}, message |-> "other"]

NoDoc == [pages |-> 0, cmds |-> <<>>]
NoLocals == [cellW |-> Zero, cellH |-> Zero, pageW |-> 0, pageH |-> 0,
             imagesPerPage |-> 0, pageCount |-> 0]
NoResult == [status |-> "none"]

\* No helper has been called
NoCall == [fn |-> "none"]

Init ==
  /\ images \in ImageSeqs
  /\ orientation \in Orientations
  /\ rows \in 0..MaxRows
  /\ cols \in (0..MaxCols) \cup {ThirdsCols}
             \cup (IF orientation = "portrait" THEN {TooManyCols} ELSE {})
  /\ gridEnabled \in Styles
  /\ gridColor = "#c4c4c4"
  /\ gridThickness = Half
  /\ sink = NoFaults
  /\ pc = "start"
  /\ page = 0
  /\ i = 0
  /\ locals = NoLocals
  /\ doc = NoDoc
  /\ console = <<>>
  /\ result = NoResult
  /\ call = NoCall
  /\ AppInit

\* throw new PdfGenerationError(message, type)
Throw(type, message) ==
  /\ pc' = "error"
  /\ result' = [status |-> "error", type |-> type, message |-> message]

\* The outer catch: a sink exception becomes a 'memory' or 'generation' error
ThrowSinkError ==
  IF sink.message = "memory"
  THEN Throw("memory", "Not enough memory to generate PDF")
  ELSE Throw("generation", "PDF generation failed")

\* A cell size validation that lets a cell of size zero through (< for <=)
CheckCellSizeNegative(cellW, cellH) ==
  IF FLt(cellW, Zero) \/ FLt(cellH, Zero)
  THEN Throw("validation", "Grid configuration results in invalid cell size")
       /\ UNCHANGED locals
  ELSE /\ locals' = [cellW |-> cellW, cellH |-> cellH,
                     pageW |-> PageSize(orientation).width,
                     pageH |-> PageSize(orientation).height,
                     imagesPerPage |-> rows * cols,
                     pageCount |-> PageCountOf(Len(images), rows * cols)]
       /\ pc' = "page"
       /\ UNCHANGED result

\* The cell size validation and the pagination that follows it
CheckCellSize(cellW, cellH) ==
  IF FLe(cellW, Zero) \/ FLe(cellH, Zero)
  THEN Throw("validation", "Grid configuration results in invalid cell size")
       /\ UNCHANGED locals
  ELSE /\ locals' = [cellW |-> cellW, cellH |-> cellH,
                     pageW |-> PageSize(orientation).width,
                     pageH |-> PageSize(orientation).height,
                     imagesPerPage |-> rows * cols,
                     pageCount |-> PageCountOf(Len(images), rows * cols)]
       /\ pc' = "page"
       /\ UNCHANGED result

\* An input check that accepts the empty sequence
NoImagesAccepted(imgs) == FALSE

\* !images || images.length === 0
NoImages(imgs) == Len(imgs) = 0

\* Input validation, new jsPDF, cell geometry and pagination
Validate ==
  /\ pc = "start"
  /\ IF NoImages(images)
     THEN Throw("validation", "No images provided")
          /\ UNCHANGED <<doc, locals>>
     ELSE IF rows < 1
     THEN Throw("validation", "Invalid rows value")
          /\ UNCHANGED <<doc, locals>>
     ELSE IF cols < 1
     THEN Throw("validation", "Invalid columns value")
          /\ UNCHANGED <<doc, locals>>
     ELSE IF "new" \in sink.rejects
     THEN Throw("initialization", "Failed to initialize PDF generator")
          /\ UNCHANGED <<doc, locals>>
     ELSE /\ doc' = [pages |-> 1, cmds |-> <<>>]
          /\ CheckCellSize(CellW(cols, orientation), CellH(rows, orientation))
  /\ UNCHANGED <<args, page, i, console, call, appVars>>

\* A slice that starts one page too far
startIdxNextPage == (page + 1) * locals.imagesPerPage

startIdx == page * locals.imagesPerPage
endIdx ==
  IF startIdx + locals.imagesPerPage < Len(images)
  THEN startIdx + locals.imagesPerPage ELSE Len(images)

\* A page loop that never calls addPage: every page is drawn over the first
BeginPageWithoutAddPage ==
  /\ pc = "page"
  /\ page < locals.pageCount
  /\ i' = startIdx
  /\ pc' = "image"
  /\ UNCHANGED <<args, page, locals, doc, console, result, call, appVars>>

\* The head of the page loop: addPage for every page after the first
BeginPage ==
  /\ pc = "page"
  /\ page < locals.pageCount
  /\ IF page > 0 /\ "addPage" \in sink.rejects
     THEN ThrowSinkError /\ UNCHANGED <<doc, i>>
     ELSE /\ doc' = IF page > 0
                    THEN [pages |-> doc.pages + 1,
                          cmds  |-> Append(doc.cmds, [op |-> "addPage", page |-> doc.pages + 1])]
                    ELSE doc
          /\ i' = startIdx
          /\ pc' = "image"
          /\ UNCHANGED result
  /\ UNCHANGED <<args, page, locals, console, call, appVars>>

\* !img.wPx || !img.hPx || img.wPx <= 0 || img.hPx <= 0
InvalidDimensions(img) == img.wPx <= 0 \/ img.hPx <= 0

\* doc.addImage(img.dataUrl, 'PNG', imgX, imgY, renderWMm, renderHMm), with
\* imgX = cellX + (cellW - renderWMm) / 2 and imgY likewise
AddImage(idx, row, col, cellX, cellY, size) ==
  [op |-> "addImage", page |-> doc.pages, idx |-> idx,
   x |-> FAdd(cellX, FDiv(FSub(locals.cellW, size.renderWMm), Num(2))),
   y |-> FAdd(cellY, FDiv(FSub(locals.cellH, size.renderHMm), Num(2))),
   w |-> size.renderWMm, h |-> size.renderHMm,
   row |-> row, col |-> col, cellX |-> cellX, cellY |-> cellY,
   cellW |-> locals.cellW, cellH |-> locals.cellH]

\* A cell origin counted from the edge of the page, without the margin
CellOriginFromEdge(n, cell) == FMul(Num(n), FAdd(cell, Num(GAP_MM)))

\* cellX = MARGIN_MM + col * (cellW + GAP_MM), cellY likewise
CellOrigin(n, cell) == FAdd(Num(MARGIN_MM), FMul(Num(n), FAdd(cell, Num(GAP_MM))))

ImageInCell(idx, row, col) ==
  AddImage(idx, row, col, CellOrigin(col, locals.cellW), CellOrigin(row, locals.cellH),
           calculateImageRenderSize(images[idx + 1].wPx, images[idx + 1].hPx,
                                    locals.cellW, locals.cellH))

\* A column-major fill: row and col exchanged
ImageCommandColumnMajor(idx) ==
  ImageInCell(idx, (idx - startIdx) % cols,
              MathFloor(FDiv(Num(idx - startIdx), Num(cols))))

\* A fill that closes the gaps: the cell is counted from the images already
\* placed on the page, not from the index
ImageCommandCompacting(idx) ==
  ImageInCell(idx,
              Cardinality({m \in DOMAIN doc.cmds : doc.cmds[m].op = "addImage"
                                                   /\ doc.cmds[m].page = doc.pages})
                \div cols,
              Cardinality({m \in DOMAIN doc.cmds : doc.cmds[m].op = "addImage"
                                                   /\ doc.cmds[m].page = doc.pages})
                % cols)

\* The addImage command of the image at index idx (0-based) of the current
\* page: row = Math.floor(localIdx / cols), col = localIdx % cols
ImageCommand(idx) ==
  ImageInCell(idx, MathFloor(FDiv(Num(idx - startIdx), Num(cols))),
              (idx - startIdx) % cols)

\* One iteration of the image loop
PlaceImage ==
  /\ pc = "image"
  /\ i < endIdx
  /\ IF InvalidDimensions(images[i + 1])
     THEN /\ console' = Append(console, [warn |-> "skipped", idx |-> i, page |-> doc.pages])
          /\ UNCHANGED doc
     ELSE IF ~images[i + 1].payloadOk \/ "addImage" \in sink.rejects
     THEN /\ console' = Append(console, [warn |-> "addImage failed", idx |-> i, page |-> doc.pages])
          /\ UNCHANGED doc
     ELSE /\ doc' = [doc EXCEPT !.cmds = Append(@, ImageCommand(i))]
          /\ UNCHANGED console
  /\ i' = i + 1
  /\ UNCHANGED <<args, pc, page, locals, result, call, appVars>>

\* A separator on the right edge of cell k - 1 (the GAP_MM / 2 left out)
LinePositionAtCellEdge(k, cell) ==
  FAdd(FAdd(Num(MARGIN_MM), FMul(Num(k), cell)), Num((k - 1) * GAP_MM))

\* MARGIN_MM + k * cell + (k - 1) * GAP_MM + GAP_MM / 2
LinePosition(k, cell) ==
  FAdd(FAdd(FAdd(Num(MARGIN_MM), FMul(Num(k), cell)), Num((k - 1) * GAP_MM)),
       FDiv(Num(GAP_MM), Num(2)))

\* doc.line(x, MARGIN_MM, x, pageH - MARGIN_MM)
VerticalLine(k, x) ==
  [op |-> "line", page |-> doc.pages, dir |-> "vertical", k |-> k,
   x1 |-> x, y1 |-> Num(MARGIN_MM), x2 |-> x, y2 |-> Num(locals.pageH - MARGIN_MM)]

\* doc.line(MARGIN_MM, y, pageW - MARGIN_MM, y)
HorizontalLine(k, y) ==
  [op |-> "line", page |-> doc.pages, dir |-> "horizontal", k |-> k,
   x1 |-> Num(MARGIN_MM), y1 |-> y, x2 |-> Num(locals.pageW - MARGIN_MM), y2 |-> y]

\* Separator lines whose loops run one boundary too far (c <= cols, r <= rows)
GridLinesThroughEdge ==
  [n \in 1..cols |-> VerticalLine(n, LinePosition(n, locals.cellW))]
  \o [n \in 1..rows |-> HorizontalLine(n, LinePosition(n, locals.cellH))]

\* The separator lines of one page, in drawing order
GridLines ==
  [n \in 1..(cols - 1) |-> VerticalLine(n, LinePosition(n, locals.cellW))]
  \o [n \in 1..(rows - 1) |-> HorizontalLine(n, LinePosition(n, locals.cellH))]

DashPattern(pattern) == [op |-> "setLineDashPattern", page |-> doc.pages, pattern |-> pattern]

\* Every line, preceded by the dash pattern when dashed
DrawnLines(lines) ==
  IF gridEnabled = "dashed"
  THEN [n \in 1..(2 * Len(lines)) |->
          IF n % 2 = 1 THEN DashPattern(<<2, 2>>) ELSE lines[n \div 2]]
  ELSE lines

\* The commands of the grid-line block: colour, width (gridThickness || 0.5),
\* the lines, then the pattern reset
GridCommands ==
  << [op |-> "setDrawColor", page |-> doc.pages, rgb |-> hexToRgb(gridColor)],
     [op |-> "setLineWidth", page |-> doc.pages,
      width |-> IF gridThickness.sgn = 0 THEN Half ELSE gridThickness] >>
  \o DrawnLines(GridLines)
  \o (IF gridEnabled = "dashed" THEN <<DashPattern(<<>>)>> ELSE <<>>)

\* A test that takes an undefined style for a style
GridLinesUnlessNone == gridEnabled # "none"

\* if (gridEnabled && gridEnabled !== 'none')
GridLinesEnabled == gridEnabled \notin {"unset", "none"}

\* The end of the image loop of a page: its grid lines, then the next page
DrawGridLines ==
  /\ pc = "image"
  /\ i = endIdx
  /\ IF GridLinesEnabled /\ "draw" \in sink.rejects
     THEN ThrowSinkError /\ UNCHANGED <<doc, page>>
     ELSE /\ doc' = IF GridLinesEnabled
                    THEN [doc EXCEPT !.cmds = @ \o GridCommands]
                    ELSE doc
          /\ page' = page + 1
          /\ pc' = "page"
          /\ UNCHANGED result
  /\ UNCHANGED <<args, i, locals, console, call, appVars>>

\* doc.output('blob') and the return of { blob, pageCount }
Output ==
  /\ pc = "page"
  /\ page = locals.pageCount
  /\ IF "output" \in sink.rejects
     THEN Throw("output", "Failed to create PDF file") /\ UNCHANGED doc
     ELSE /\ doc' = [doc EXCEPT !.cmds = Append(@, [op |-> "output", page |-> doc.pages])]
          /\ result' = [status |-> "ok", blob |-> doc', pageCount |-> locals.pageCount]
          /\ pc' = "done"
  /\ UNCHANGED <<args, page, i, locals, console, call, appVars>>

Next == Validate \/ BeginPage \/ PlaceImage \/ DrawGridLines \/ Output

Spec == Init /\ [][Next]_vars

\* The commands a sink may reject: new jsPDF, addPage, addImage, the drawing
\* of the grid lines, output
SinkOps == {"new", "addPage", "addImage", "draw", "output"}

\* Sinks that reject at most one kind of command, with an exception message
\* that does or does not speak of memory
FaultySinks ==
  {NoFaults} \cup { [rejects |-> {op}, message |-> msg] :
                      op \in SinkOps, msg \in {"memory", "other"} }

\* generatePdf writing to a sink that may reject commands
InitFaults ==
  /\ images \in ImageSeqs
  /\ orientation = "portrait"
  /\ rows \in 1..MaxRows
  /\ cols \in 1..MaxCols
  /\ gridEnabled \in {"none", "dashed"}
  /\ gridColor = "#c4c4c4"
  /\ gridThickness = Half
  /\ sink \in FaultySinks
  /\ pc = "start"
  /\ page = 0
  /\ i = 0
  /\ locals = NoLocals
  /\ doc = NoDoc
  /\ console = <<>>
  /\ result = NoResult
  /\ call = NoCall
  /\ AppInit

SpecFaults == InitFaults /\ [][Next]_vars

\* Sinks of the repeated call: faultless, out of memory while drawing, and
\* failing at output
RepeatSinks ==
  { NoFaults, [rejects |-> {"draw"}, message |-> "memory"],
    [rejects |-> {"output"}, message |-> "other"] }

\* generatePdf called twice with the same arguments
InitTwice ==
  /\ images \in UNION { [1..n -> MixedKinds] : n \in 0..MaxImages }
  /\ orientation = "portrait"
  /\ rows \in 0..MaxRows
  /\ cols \in 0..MaxCols
  /\ gridEnabled \in {"none", "dashed"}
  /\ gridColor = "#c4c4c4"
  /\ gridThickness = Half
  /\ sink \in RepeatSinks
  /\ pc = "start"
  /\ page = 0
  /\ i = 0
  /\ locals = NoLocals
  /\ doc = NoDoc
  /\ console = <<>>
  /\ result = NoResult
  /\ call = NoCall
  /\ AppInit

\* A second call that finds the page counter of the first call
CallAgainKeepingPage ==
  /\ pc \in {"done", "error"}
  /\ call = NoCall
  /\ call' = [fn |-> "generatePdf", ret |-> result, cmds |-> doc.cmds]
  /\ pc' = "start"
  /\ i' = 0
  /\ locals' = NoLocals
  /\ doc' = NoDoc
  /\ result' = NoResult
  /\ UNCHANGED <<args, page, console, appVars>>

\* The first call has returned or thrown, its outcome is kept, and generatePdf
\* is called again with the same arguments: the locals of the new call are
\* fresh, the console keeps its lines
CallAgain ==
  /\ pc \in {"done", "error"}
  /\ call = NoCall
  /\ call' = [fn |-> "generatePdf", ret |-> result, cmds |-> doc.cmds]
  /\ pc' = "start"
  /\ page' = 0
  /\ i' = 0
  /\ locals' = NoLocals
  /\ doc' = NoDoc
  /\ result' = NoResult
  /\ UNCHANGED <<args, console, appVars>>

NextTwice == Next \/ CallAgain

SpecTwice == InitTwice /\ [][NextTwice]_vars

(***************************************************************************)
(* The validation utilities and the page count of the App component        *)
(***************************************************************************)
MAX_GRID_DIMENSION == 20
MIN_CELL_SIZE_MM == 10
MAX_PAGES_WARNING == 50
MAX_PAGES_ERROR == 500

\* A cell size that forgets the gaps between the cells
calculateCellSizeNoGaps(r, c, o) ==
  [cellW |-> FDiv(Num(PageSize(o).width - 2 * MARGIN_MM), Num(c)),
   cellH |-> FDiv(Num(PageSize(o).height - 2 * MARGIN_MM), Num(r))]

calculateCellSize(r, c, o) ==
  [cellW |-> FDiv(Num(PageSize(o).width - 2 * MARGIN_MM - (c - 1) * GAP_MM), Num(c)),
   cellH |-> FDiv(Num(PageSize(o).height - 2 * MARGIN_MM - (r - 1) * GAP_MM), Num(r))]

\* Warnings that take a grid of MAX_GRID_DIMENSION rows or columns for large
GridWarningsFromLimit(r, c, cell, pageCount) ==
  (IF r >= MAX_GRID_DIMENSION \/ c >= MAX_GRID_DIMENSION THEN <<"large grid">> ELSE <<>>)
  \o (IF FLt(cell.cellW, Num(MIN_CELL_SIZE_MM)) \/ FLt(cell.cellH, Num(MIN_CELL_SIZE_MM))
      THEN <<"small cells">> ELSE <<>>)
  \o (IF pageCount <= MAX_PAGES_ERROR /\ pageCount > MAX_PAGES_WARNING
      THEN <<"many pages">> ELSE <<>>)

\* The warnings of validateGridConfig, by kind, in the order they are pushed
GridWarnings(r, c, cell, pageCount) ==
  (IF r > MAX_GRID_DIMENSION \/ c > MAX_GRID_DIMENSION THEN <<"large grid">> ELSE <<>>)
  \o (IF FLt(cell.cellW, Num(MIN_CELL_SIZE_MM)) \/ FLt(cell.cellH, Num(MIN_CELL_SIZE_MM))
      THEN <<"small cells">> ELSE <<>>)
  \o (IF pageCount <= MAX_PAGES_ERROR /\ pageCount > MAX_PAGES_WARNING
      THEN <<"many pages">> ELSE <<>>)

GridErrors(pageCount) ==
  IF pageCount > MAX_PAGES_ERROR THEN <<"too many pages">> ELSE <<>>

GridReport(r, c, cell, pageCount) ==
  [warnings |-> GridWarnings(r, c, cell, pageCount), errors |-> GridErrors(pageCount),
   cellW |-> cell.cellW, cellH |-> cell.cellH, pageCount |-> pageCount]

\* pageCount = imageCount > 0 ? Math.ceil(imageCount / imagesPerPage) : 0
validateGridConfig(r, c, imageCount, o) ==
  GridReport(r, c, calculateCellSize(r, c, o),
             IF imageCount > 0 THEN MathCeil(FDiv(Num(imageCount), Num(r * c))) ELSE 0)

\* The pageCount memo of App
AppPageCount(n, r, c) == IF n = 0 THEN 0 ELSE MathCeil(FDiv(Num(n), Num(r * c)))

(***************************************************************************)
(* The helpers called on their own: one call of one helper, on arguments   *)
(* drawn from bounded sets.  call records the helper, the arguments and    *)
(* the value returned.                                                     *)
(***************************************************************************)
\* Bounds of the arguments
MaxGrid == 12
MaxCount == 13
MaxFitGrid == 3

\* Intrinsic image widths and heights, in pixels
ImageSizes == {100, 551, 1000, 1220, 1280, 2000}

\* Cell sizes: those of the grids up to MaxFitGrid, and 40 mm
CellSizes ==
  {CellW(c, o) : c \in 1..MaxFitGrid, o \in Orientations}
  \cup {CellH(r, o) : r \in 1..MaxFitGrid, o \in Orientations}
  \cup {Num(40)}

InitCalls ==
  /\ images = <<>>
  /\ rows = 1
  /\ cols = 1
  /\ orientation = "portrait"
  /\ gridEnabled = "none"
  /\ gridColor = "#c4c4c4"
  /\ gridThickness = Half
  /\ sink = NoFaults
  /\ pc = "idle"
  /\ page = 0
  /\ i = 0
  /\ locals = NoLocals
  /\ doc = NoDoc
  /\ console = <<>>
  /\ result = NoResult
  /\ call = NoCall
  /\ AppInit

Idle == pc = "idle" /\ call = NoCall

generatePdfVars == <<args, pc, page, i, locals, doc, console, result>>

CallCalculateImageRenderSize ==
  /\ Idle
  /\ \E w \in ImageSizes, h \in ImageSizes, cw \in CellSizes, ch \in CellSizes :
       call' = [fn |-> "calculateImageRenderSize",
                imgWPx |-> w, imgHPx |-> h, cellWMm |-> cw, cellHMm |-> ch,
                ret |-> calculateImageRenderSize(w, h, cw, ch)]
  /\ UNCHANGED <<generatePdfVars, appVars>>

CallCalculateCellSize ==
  /\ Idle
  /\ \E r \in 1..MaxGrid, c \in 1..MaxGrid, o \in Orientations :
       call' = [fn |-> "calculateCellSize", rows |-> r, cols |-> c, orientation |-> o,
                ret |-> calculateCellSize(r, c, o)]
  /\ UNCHANGED <<generatePdfVars, appVars>>

\* cellW and cellH as generatePdf computes them
CallCellGeometry ==
  /\ Idle
  /\ \E r \in 1..MaxGrid, c \in 1..MaxGrid, o \in Orientations :
       call' = [fn |-> "generatePdf.cell", rows |-> r, cols |-> c, orientation |-> o,
                ret |-> [cellW |-> CellW(c, o), cellH |-> CellH(r, o)]]
  /\ UNCHANGED <<generatePdfVars, appVars>>

\* Rows and columns given to validateGridConfig: the small grids, and the
\* grids around the sizes where a cell gets smaller than MIN_CELL_SIZE_MM
\* and where the grid counts as large
GridSizes == (1..MaxGrid) \cup {16, 17, 20, 21, 23, 24}

CallValidateGridConfig ==
  /\ Idle
  /\ \E r \in GridSizes, c \in GridSizes, n \in 0..MaxCount, o \in Orientations :
       call' = [fn |-> "validateGridConfig",
                rows |-> r, cols |-> c, imageCount |-> n, orientation |-> o,
                ret |-> validateGridConfig(r, c, n, o)]
  /\ UNCHANGED <<generatePdfVars, appVars>>

CallAppPageCount ==
  /\ Idle
  /\ \E r \in 1..MaxGrid, c \in 1..MaxGrid, n \in 0..MaxCount :
       call' = [fn |-> "App.pageCount", rows |-> r, cols |-> c, imageCount |-> n,
                ret |-> AppPageCount(n, r, c)]
  /\ UNCHANGED <<generatePdfVars, appVars>>

\* imagesPerPage and pageCount as generatePdf computes them, for the image
\* counts that pass its validation
CallPagination ==
  /\ Idle
  /\ \E r \in 1..MaxGrid, c \in 1..MaxGrid, n \in 1..MaxCount :
       call' = [fn |-> "generatePdf.pageCount", rows |-> r, cols |-> c, imageCount |-> n,
                ret |-> PageCountOf(n, r * c)]
  /\ UNCHANGED <<generatePdfVars, appVars>>

NextCalls ==
  \/ CallCalculateImageRenderSize
  \/ CallCalculateCellSize
  \/ CallCellGeometry
  \/ CallValidateGridConfig
  \/ CallAppPageCount
  \/ CallPagination

SpecCalls == InitCalls /\ [][NextCalls]_vars

(***************************************************************************)
(* The App component.  A drop starts one asynchronous load per file; the   *)
(* callbacks of the files complete in any order and the last one runs the  *)
(* handler of Promise.all.  A loaded batch and a Generate click each set a *)
(* timer whose callback calls createPdfUrl, which orders a copy of the     *)
(* images and runs generatePdf to its end before any other event is        *)
(* handled (pc = "idle" between the events).  A timer keeps the images and *)
(* the image order of the render that created its callback.                *)
(***************************************************************************)
MaxDrops == 2
MaxLoads == 1
MaxClicks == 1
MaxOrderChanges == 1

\* The callbacks of a load of more than MaxShuffled files are taken in the
\* order of the files; those of a smaller load in every order
MaxShuffled == 3

\* The number of files of a large batch, and of a batch over the file limit
BigBatchSize == 40
TooManyFiles == 201

MAX_FILE_SIZE_BYTES == 20 * 1024 * 1024
MAX_TOTAL_SIZE_BYTES == 150 * 1024 * 1024
MAX_FILE_COUNT == 200

\* Files: two images, an image that fails while loading (read error, decode
\* error or a width of 0), an empty image file and a text file
FileA == [name |-> "a", type |-> "image/png", size |-> 1000, outcomes |-> {"load"},
          wPx |-> 100, hPx |-> 50]
FileB == [name |-> "b", type |-> "image/png", size |-> 1000, outcomes |-> {"load"},
          wPx |-> 1220, hPx |-> 800]
FileC == [name |-> "c", type |-> "image/png", size |-> 1000,
          outcomes |-> {"readerror", "imgerror", "load"}, wPx |-> 0, hPx |-> 600]
FileE == [name |-> "e", type |-> "image/png", size |-> 0, outcomes |-> {"load"},
          wPx |-> 100, hPx |-> 50]
FileT == [name |-> "t", type |-> "text/plain", size |-> 1000, outcomes |-> {"load"},
          wPx |-> 0, hPx |-> 0]

\* The files that are dropped together
FileGroups ==
  { {}, {FileA}, {FileA, FileT}, {FileA, FileE}, {FileA, FileC}, {FileA, FileB},
    {FileA, FileB, FileC} }

\* A drop event delivers the files of a group in some order
DropEvents ==
  UNION { { event \in [1..Cardinality(g) -> g] :
              \A j, k \in 1..Cardinality(g) : j # k => event[j] # event[k] } :
          g \in FileGroups }

\* A large batch of equal images, and a batch with too many of them
FileX == [name |-> "x", type |-> "image/png", size |-> 1000, outcomes |-> {"load"},
          wPx |-> 100, hPx |-> 50]
BigEvent == [j \in 1..BigBatchSize |-> FileX]
TooManyEvent == [j \in 1..TooManyFiles |-> FileX]

\* f.type.startsWith('image/')
IsImageFile(f) == f.type \in {"image/png", "image/jpeg", "image/gif", "image/svg+xml"}

\* useDropzone with accept: { 'image/*': [] }
acceptedFiles(event) == SelectSeq(event, IsImageFile)
fileRejections(event) == SelectSeq(event, LAMBDA f : ~IsImageFile(f))

\* A count check that accepts every batch
validateFileCountAny(count) == TRUE

validateFileCount(count) == count <= MAX_FILE_COUNT

\* The field valid of validateFile(file, totalSizeSoFar)
validateFile(file, totalSizeSoFar) ==
  /\ file.size # 0
  /\ file.size <= MAX_FILE_SIZE_BYTES
  /\ totalSizeSoFar + file.size <= MAX_TOTAL_SIZE_BYTES

\* The field valid of validateImageDimensions(width, height, filename)
validateImageDimensions(width, height) == ~(width = 0 \/ height = 0)

\* The sum of the sizes of the files lo..hi
RECURSIVE SizeOfRange(_, _, _)
SizeOfRange(files, lo, hi) ==
  IF lo > hi THEN 0
  ELSE IF lo = hi THEN files[lo].size
  ELSE SizeOfRange(files, lo, (lo + hi) \div 2) + SizeOfRange(files, (lo + hi) \div 2 + 1, hi)

\* The validation loop of onDrop over the files lo..hi, entered with
\* totalSize: the files it pushes to validatedFiles.  The loop over lo..hi is
\* the loop over the first half followed by the loop over the second half,
\* entered with the totalSize that the first half leaves.
RECURSIVE ValidatedRange(_, _, _, _)
ValidatedRange(imageFiles, lo, hi, totalSize) ==
  IF lo > hi THEN <<>>
  ELSE IF lo = hi
  THEN IF validateFile(imageFiles[lo], totalSize) THEN <<imageFiles[lo]>> ELSE <<>>
  ELSE LET mid == (lo + hi) \div 2
           first == ValidatedRange(imageFiles, lo, mid, totalSize)
       IN  first \o ValidatedRange(imageFiles, mid + 1, hi,
                                   totalSize + SizeOfRange(first, 1, Len(first)))

\* The validation loop of onDrop from file j on: validatedFiles
ValidatedFiles(imageFiles, j, totalSize) ==
  ValidatedRange(imageFiles, j, Len(imageFiles), totalSize)

InvalidFilesError(rejections) ==
  IF Len(rejections) > 0 THEN <<"Invalid files (only images allowed)">> ELSE <<>>

SkippedFilesError(skipped) ==
  IF skipped > 0 THEN <<"Skipped file(s)">> ELSE <<>>

\* The values of a promise of loadPromises
Pending == [state |-> "pending"]
Null == [state |-> "null"]

\* The load that onDrop starts: the files, their promises, the order in which
\* the promises were settled, the warnings pushed so far, and the imageOrder
\* and the settings of the render of the drop, and the number of the drop
StartLoad(event, validatedFiles) ==
  [event |-> event, files |-> validatedFiles,
   results |-> [j \in 1..Len(validatedFiles) |-> Pending],
   settled |-> <<>>, newWarnings |-> <<>>, imageOrder |-> imageOrder,
   settings |-> settings, drop |-> used.drops + 1]

\* onDrop(acceptedFiles, fileRejections)
OnDrop ==
  /\ pc = "idle"
  /\ used.drops < limits.drops
  /\ Len(loads) < limits.loads
  /\ \E event \in limits.events :
       LET imageFiles == SelectSeq(acceptedFiles(event), IsImageFile)
           newErrors == InvalidFilesError(fileRejections(event))
           validatedFiles == ValidatedFiles(imageFiles, 1, 0)
           skipped == SkippedFilesError(Len(imageFiles) - Len(validatedFiles))
       IN  IF ~validateFileCount(Len(imageFiles))
           THEN /\ errors' = newErrors \o <<"Too many files">>
                /\ UNCHANGED loads
           ELSE IF Len(imageFiles) < 2
           THEN /\ errors' = newErrors \o <<"Please drop a batch (2+ files) at once.">>
                /\ UNCHANGED loads
           ELSE IF Len(validatedFiles) < 2
           THEN /\ errors' = newErrors \o skipped \o <<"Not enough valid images. Please provide at least 2 valid image files.">>
                /\ UNCHANGED loads
           ELSE /\ errors' = newErrors \o skipped
                /\ loads' = Append(loads, StartLoad(event, validatedFiles))
  /\ used' = [used EXCEPT !.drops = @ + 1]
  /\ UNCHANGED <<loadedImages, imageOrder, pdfUrl, isGenerating, warnings, timers,
                 settings, prevPdfUrlRef, isGeneratingRef, objectUrls, downloads, limits,
                 generatePdfVars, call>>

\* The image record that img.onload resolves with
ImageOf(file) == [name |-> file.name, wPx |-> file.wPx, hPx |-> file.hPx, payloadOk |-> TRUE]

\* What the callbacks of a file resolve its promise with: null after
\* reader.onerror, img.onerror or invalid dimensions, else the image record
FileOutcome(file, outcome) ==
  IF outcome = "load" /\ validateImageDimensions(file.wPx, file.hPx)
  THEN [state |-> "image", image |-> ImageOf(file)]
  ELSE Null

\* The warning that the callbacks of a file push when they resolve with null
\* (Failed to read, Failed to load, or invalid dimensions: one text here)
FileWarning(file, outcome) ==
  IF FileOutcome(file, outcome) = Null THEN <<"Failed: " \o file.name>> ELSE <<>>

Settle(load, j, outcome) ==
  [load EXCEPT !.results[j] = FileOutcome(load.files[j], outcome),
               !.settled = Append(@, j),
               !.newWarnings = @ \o FileWarning(load.files[j], outcome)]

AllSettled(load) == Len(load.settled) = Len(load.files)

\* Results delivered in the order in which the promises were settled
PromiseAllAsSettled(load) ==
  [k \in 1..Len(load.files) |-> load.results[load.settled[k]]]

\* The results of Promise.all(loadPromises): in the order of loadPromises
PromiseAll(load) == [k \in 1..Len(load.files) |-> load.results[k]]

\* results.filter((r) => r !== null)
ValidImages(results) ==
  [k \in 1..Len(SelectSeq(results, LAMBDA r : r # Null)) |->
     SelectSeq(results, LAMBDA r : r # Null)[k].image]

\* A batch check that lets every batch through
EnoughLoadedAlways(validImages) == TRUE

\* !(validImages.length < 2)
EnoughLoaded(validImages) == Len(validImages) >= 2

\* A load that leaves the pending timers alone
KeepAutoTimer == timers

\* clearTimeout(generateTimeoutRef.current)
WithoutAutoTimer == SelectSeq(timers, LAMBDA t : t.kind # "auto")

\* A browser that keeps revoked URLs alive
NoRevoke(url) == objectUrls

\* URL.revokeObjectURL(url)
Revoke(url) == [objectUrls EXCEPT !.live = @ \ {url.id}]

\* handleImagesLoaded(loadedImages, loadWarnings) of the render whose image
\* order was order and whose settings were set
handleImagesLoaded(loaded, loadWarnings, order, set) ==
  /\ loadedImages' = loaded
  /\ warnings' = loadWarnings
  /\ IF Len(loaded) >= 2 /\ Len(loaded) < 40
     THEN /\ isGenerating' = TRUE
          /\ timers' = Append(WithoutAutoTimer,
                              [kind |-> "auto", images |-> loaded, imageOrder |-> order,
                               settings |-> set])
          /\ UNCHANGED <<pdfUrl, prevPdfUrlRef, objectUrls>>
     ELSE /\ timers' = WithoutAutoTimer
          /\ IF prevPdfUrlRef # NoUrl
             THEN objectUrls' = Revoke(prevPdfUrlRef) /\ prevPdfUrlRef' = NoUrl
             ELSE UNCHANGED <<objectUrls, prevPdfUrlRef>>
          /\ pdfUrl' = NoUrl
          /\ isGenerating' = FALSE

\* The warnings the handler of Promise.all adds: the count of failed images
\* and the dimension mismatch
LoadWarnings(results, validImages) ==
  (IF Len(results) - Len(validImages) > 0 /\ Len(validImages) > 0
   THEN <<"image(s) could not be loaded">> ELSE <<>>)
  \o (IF \E k \in DOMAIN validImages :
            validImages[k].wPx # validImages[1].wPx \/ validImages[k].hPx # validImages[1].hPx
      THEN <<"Warning: Images have different dimensions. They will be scaled to fit.">> ELSE <<>>)

\* Promise.all(loadPromises).then((results) => ...)
LoadedThen(load) ==
  IF ~EnoughLoaded(ValidImages(PromiseAll(load)))
  THEN /\ errors' = Append(errors, "Not enough images loaded successfully. Need at least 2.")
       /\ UNCHANGED <<loadedImages, pdfUrl, isGenerating, warnings, timers,
                       prevPdfUrlRef, objectUrls>>
  ELSE /\ handleImagesLoaded(ValidImages(PromiseAll(load)),
                             load.newWarnings
                               \o LoadWarnings(PromiseAll(load), ValidImages(PromiseAll(load))),
                             load.imageOrder, load.settings)
       /\ UNCHANGED errors

RemoveAt(seq, n) == SubSeq(seq, 1, n - 1) \o SubSeq(seq, n + 1, Len(seq))

\* The callbacks of one file (reader.onload and img.onload, img.onerror or
\* reader.onerror) settle its promise; the last one of a drop lets Promise.all
\* run its handler
FileCallback ==
  /\ pc = "idle"
  /\ \E d \in DOMAIN loads : \E j \in DOMAIN loads[d].files :
       \E outcome \in loads[d].files[j].outcomes :
         /\ loads[d].results[j] = Pending
         /\ Len(loads[d].files) > MaxShuffled => j = Len(loads[d].settled) + 1
         /\ IF AllSettled(Settle(loads[d], j, outcome))
            THEN /\ loads' = RemoveAt(loads, d)
                 /\ LoadedThen(Settle(loads[d], j, outcome))
            ELSE /\ loads' = [loads EXCEPT ![d] = Settle(@, j, outcome)]
                 /\ UNCHANGED <<loadedImages, pdfUrl, isGenerating, errors, warnings, timers,
                                prevPdfUrlRef, objectUrls>>
  /\ UNCHANGED <<imageOrder, used, settings, isGeneratingRef, downloads, limits,
                 generatePdfVars, call>>

canGenerate ==
  /\ Len(loadedImages) >= 2
  /\ ~isGenerating
  /\ validateGridConfig(settings.rows, settings.cols, Len(loadedImages),
                        orientation).errors = <<>>

\* handleGenerate, behind the Generate button (disabled unless canGenerate)
HandleGenerate ==
  /\ pc = "idle"
  /\ used.clicks < limits.clicks
  /\ canGenerate
  /\ errors' = <<>>
  /\ isGenerating' = TRUE
  /\ timers' = Append(timers, [kind |-> "click", images |-> loadedImages,
                               imageOrder |-> imageOrder, settings |-> settings])
  /\ used' = [used EXCEPT !.clicks = @ + 1]
  /\ UNCHANGED <<loadedImages, imageOrder, pdfUrl, warnings, loads, settings,
                 prevPdfUrlRef, isGeneratingRef, objectUrls, downloads, limits,
                 generatePdfVars, call>>

\* The Image Order select (disabled while generating)
SetImageOrder ==
  /\ pc = "idle"
  /\ ~isGenerating
  /\ used.orders < limits.orders
  /\ \E order \in {"same", "reverse", "random"} :
       order # imageOrder /\ imageOrder' = order
  /\ used' = [used EXCEPT !.orders = @ + 1]
  /\ UNCHANGED <<loadedImages, pdfUrl, isGenerating, errors, warnings, loads, timers,
                 settings, prevPdfUrlRef, isGeneratingRef, objectUrls, downloads, limits,
                 generatePdfVars, call>>

\* The texts that the Rows and Columns inputs hand to their handlers: the
\* empty text of a cleared or unparsable field, and decimal numbers
InputTexts ==
  { <<>>, <<"0">>, <<"2">>, <<"-", "3">>, <<"2", ".", "7">>, <<".", "5">>,
    <<"1", "e", "2">>, <<"2", "1">> }

DecimalDigits == <<"0", "1", "2", "3", "4", "5", "6", "7", "8", "9">>

IsDigit(ch) == \E d \in 1..10 : DecimalDigits[d] = ch

DigitValue(ch) == (CHOOSE d \in 1..10 : DecimalDigits[d] = ch) - 1

\* The text without its leading white space
RECURSIVE TrimStart(_)
TrimStart(text) ==
  IF text # <<>> /\ Head(text) = " " THEN TrimStart(Tail(text)) ELSE text

\* The longest prefix of the text that consists of digits
RECURSIVE DigitPrefix(_)
DigitPrefix(text) ==
  IF text # <<>> /\ IsDigit(Head(text))
  THEN <<Head(text)>> \o DigitPrefix(Tail(text))
  ELSE <<>>

\* The number that the digits denote in radix 10, after the value so far
RECURSIVE DigitsValue(_, _)
DigitsValue(digits, value) ==
  IF digits = <<>> THEN value
  ELSE DigitsValue(Tail(digits), 10 * value + DigitValue(Head(digits)))

NaN == [nan |-> TRUE, value |-> 0]

\* parseInt(text) of a text without a 0x prefix: white space, a sign, then
\* the digits up to the first other character; NaN if there is no digit
parseInt(text) ==
  LET trimmed == TrimStart(text)
      signed == trimmed # <<>> /\ Head(trimmed) \in {"+", "-"}
      sign == IF trimmed # <<>> /\ Head(trimmed) = "-" THEN -1 ELSE 1
      Z == DigitPrefix(IF signed THEN Tail(trimmed) ELSE trimmed)
  IN  IF Z = <<>> THEN NaN ELSE [nan |-> FALSE, value |-> sign * DigitsValue(Z, 0)]

\* n || 1: NaN and 0 are falsy
OrOne(n) == IF n.nan \/ n.value = 0 THEN 1 ELSE n.value

\* Math.round(value) of an integer, which is what parseInt(..) || 1 gives
MathRound(value) == value

MathMax(a, b) == IF a >= b THEN a ELSE b

\* A handler that stores what parseInt read, and 0 for NaN
GridInputUnchecked(text) == IF parseInt(text).nan THEN 0 ELSE parseInt(text).value

\* The value that handleRowsChange and handleColsChange store for a text:
\* Math.max(1, Math.round(parseInt(e.target.value) || 1))
GridInput(text) == MathMax(1, MathRound(OrOne(parseInt(text))))

\* handleRowsChange(e), behind the Rows input (disabled while generating)
HandleRowsChange ==
  /\ pc = "idle"
  /\ ~isGenerating
  /\ used.changes < limits.changes
  /\ \E text \in InputTexts :
       /\ GridInput(text) # settings.rows
       /\ settings' = [settings EXCEPT !.rows = GridInput(text)]
  /\ used' = [used EXCEPT !.changes = @ + 1]
  /\ UNCHANGED <<loadedImages, imageOrder, pdfUrl, isGenerating, errors, warnings, loads,
                 timers, prevPdfUrlRef, isGeneratingRef, objectUrls, downloads, limits,
                 generatePdfVars, call>>

\* handleColsChange(e), behind the Columns input (disabled while generating)
HandleColsChange ==
  /\ pc = "idle"
  /\ ~isGenerating
  /\ used.changes < limits.changes
  /\ \E text \in InputTexts :
       /\ GridInput(text) # settings.cols
       /\ settings' = [settings EXCEPT !.cols = GridInput(text)]
  /\ used' = [used EXCEPT !.changes = @ + 1]
  /\ UNCHANGED <<loadedImages, imageOrder, pdfUrl, isGenerating, errors, warnings, loads,
                 timers, prevPdfUrlRef, isGeneratingRef, objectUrls, downloads, limits,
                 generatePdfVars, call>>

Reverse(seq) == [k \in 1..Len(seq) |-> seq[Len(seq) + 1 - k]]

\* The orders the shuffle of Math.random can leave: every order of an array of
\* up to MaxShuffled elements, and two of the orders of a longer one
Shuffles(seq) ==
  IF Len(seq) <= MaxShuffled
  THEN { [k \in 1..Len(seq) |-> seq[p[k]]] : p \in Permutations(1..Len(seq)) }
  ELSE {seq, Reverse(seq)}

Ordered(imagesToOrder, order) ==
  IF order = "reverse" THEN {Reverse(imagesToOrder)}
  ELSE IF order = "random" THEN Shuffles(imagesToOrder)
  ELSE {imagesToOrder}

\* An ordering step that reverses or shuffles the array it was given
orderImagesInPlace(imagesToOrder, order) ==
  { [ordered |-> o, input |-> o] : o \in Ordered(imagesToOrder, order) }

\* orderImages(imagesToOrder, order): the arrays it can return, each with the
\* content of imagesToOrder after the call (ordered = [...imagesToOrder])
orderImages(imagesToOrder, order) ==
  { [ordered |-> o, input |-> imagesToOrder] : o \in Ordered(imagesToOrder, order) }

\* The content of an array after orderImages ran on the array before: the
\* same array if it is the one the call was given
AfterOrdering(array, before, after) == IF array = before THEN after ELSE array

\* An event loop that never finds a timer due
NeverDue(n) == FALSE

\* The delay of a timer in ms: 300 after a load, 50 after a click
Delay(kind) == IF kind = "auto" THEN 300 ELSE 50

\* Timer n may fire: the timers set before it with a delay that is not longer
\* than its own have fired
Due(n) == \A m \in 1..(n - 1) : Delay(timers[m].kind) > Delay(timers[n].kind)

\* A timer fires: createPdfUrl(images, settings) up to its call of generatePdf,
\* with the jsPDF and the browser of this call
TimerFires ==
  /\ pc = "idle"
  /\ \E n \in DOMAIN timers :
       /\ Due(n)
       /\ IF isGeneratingRef
          THEN /\ timers' = RemoveAt(timers, n)
               /\ pdfUrl' = NoUrl
               /\ isGenerating' = FALSE
               /\ UNCHANGED <<images, rows, cols, sink, pc, loadedImages, isGeneratingRef,
                              prevPdfUrlRef, objectUrls>>
          ELSE /\ isGeneratingRef' = TRUE
               /\ IF prevPdfUrlRef # NoUrl
                  THEN objectUrls' = Revoke(prevPdfUrlRef) /\ prevPdfUrlRef' = NoUrl
                  ELSE UNCHANGED <<objectUrls, prevPdfUrlRef>>
               /\ \E r \in orderImages(timers[n].images, timers[n].imageOrder) :
                    /\ images' = r.ordered
                    /\ loadedImages' = AfterOrdering(loadedImages, timers[n].images, r.input)
                    /\ timers' = [k \in 1..(Len(timers) - 1) |->
                                    [RemoveAt(timers, n)[k] EXCEPT
                                       !.images = AfterOrdering(@, timers[n].images, r.input)]]
               /\ rows' = timers[n].settings.rows
               /\ cols' = timers[n].settings.cols
               /\ sink' \in limits.sinks
               /\ pc' = "start"
               /\ UNCHANGED <<pdfUrl, isGenerating>>
  /\ page' = 0
  /\ i' = 0
  /\ locals' = NoLocals
  /\ doc' = NoDoc
  /\ result' = NoResult
  /\ UNCHANGED <<orientation, gridEnabled, gridColor, gridThickness, console, call,
                 imageOrder, errors, warnings, loads, used, settings, downloads, limits>>

\* URL.createObjectURL(blob): a URL that was never handed out before
UrlOf(blob, pageCount) ==
  [null |-> FALSE, id |-> objectUrls.created + 1, pageCount |-> pageCount,
   images |-> [k \in 1..Len(images) |-> images[k].name]]

\* generatePdf has returned or thrown: the rest of createPdfUrl and of the
\* timer callback (setPdfUrl(url), setIsGenerating(false)); the locals of the
\* call are gone
CreatePdfUrlReturn ==
  /\ pc \in {"done", "error"}
  /\ IF pc = "done" /\ "createObjectURL" \notin sink.rejects
     THEN /\ pdfUrl' = UrlOf(result.blob, result.pageCount)
          /\ prevPdfUrlRef' = UrlOf(result.blob, result.pageCount)
          /\ objectUrls' = [created |-> objectUrls.created + 1,
                            live |-> objectUrls.live \cup {objectUrls.created + 1}]
          /\ UNCHANGED errors
     ELSE /\ pdfUrl' = NoUrl
          /\ errors' = Append(errors, IF pc = "done"
                                      THEN "Failed to create PDF preview. Try generating again."
                                      ELSE result.message)
          /\ UNCHANGED <<prevPdfUrlRef, objectUrls>>
  /\ isGeneratingRef' = FALSE
  /\ isGenerating' = FALSE
  /\ pc' = "idle"
  /\ images' = <<>>
  /\ page' = 0
  /\ i' = 0
  /\ locals' = NoLocals
  /\ doc' = NoDoc
  /\ result' = NoResult
  /\ UNCHANGED <<rows, cols, orientation, gridEnabled, gridColor, gridThickness, sink,
                 console, call, loadedImages, imageOrder, warnings, loads, timers, used,
                 settings, downloads, limits>>

\* The App after its first render, with the default settings
InitApp ==
  /\ images = <<>>
  /\ rows = 4
  /\ cols = 1
  /\ orientation = "portrait"
  /\ gridEnabled = "solid"
  /\ gridColor = "#c4c4c4"
  /\ gridThickness = Half
  /\ sink = NoFaults
  /\ pc = "idle"
  /\ page = 0
  /\ i = 0
  /\ locals = NoLocals
  /\ doc = NoDoc
  /\ console = <<>>
  /\ result = NoResult
  /\ call = NoCall
  /\ AppState
  /\ limits = [drops |-> MaxDrops, loads |-> MaxLoads, clicks |-> MaxClicks,
               orders |-> MaxOrderChanges, changes |-> 0, downloads |-> 0,
               events |-> DropEvents, sinks |-> {NoFaults}]

NextApp ==
  \/ OnDrop \/ FileCallback \/ HandleGenerate \/ SetImageOrder
  \/ TimerFires \/ CreatePdfUrlReturn \/ Next

SpecApp == InitApp /\ [][NextApp]_vars

(***************************************************************************)
(* The App with small and large batches, with a jsPDF that may reject      *)
(* output and a browser that may reject URL.createObjectURL in any call    *)
(***************************************************************************)
MaxBatchDrops == 2
MaxBatchClicks == 1

BatchEvents == {<<FileA, FileB>>, BigEvent, TooManyEvent}

BrowserSinks ==
  {NoFaults, [rejects |-> {"output"}, message |-> "other"],
   [rejects |-> {"createObjectURL"}, message |-> "other"]}

InitBatches ==
  /\ images = <<>>
  /\ rows = 4
  /\ cols = 1
  /\ orientation = "portrait"
  /\ gridEnabled = "solid"
  /\ gridColor = "#c4c4c4"
  /\ gridThickness = Half
  /\ sink = NoFaults
  /\ pc = "idle"
  /\ page = 0
  /\ i = 0
  /\ locals = NoLocals
  /\ doc = NoDoc
  /\ console = <<>>
  /\ result = NoResult
  /\ call = NoCall
  /\ AppState
  /\ limits = [drops |-> MaxBatchDrops, loads |-> 1, clicks |-> MaxBatchClicks,
               orders |-> 0, changes |-> 0, downloads |-> 0, events |-> BatchEvents,
               sinks |-> BrowserSinks]

\* The image order is left as it is
NextBatches ==
  \/ OnDrop \/ FileCallback \/ HandleGenerate \/ TimerFires \/ CreatePdfUrlReturn \/ Next

SpecBatches == InitBatches /\ [][NextBatches]_vars

(***************************************************************************)
(* The App under an event loop that runs every timer that is due, and in   *)
(* which a call of createPdfUrl, once started, runs to its end             *)
(***************************************************************************)
MaxFairDrops == 2
MaxFairClicks == 1

FairEvents == {<<FileA, FileB>>, <<FileA, FileC>>, BigEvent}

InitFair ==
  /\ images = <<>>
  /\ rows = 4
  /\ cols = 1
  /\ orientation = "portrait"
  /\ gridEnabled = "solid"
  /\ gridColor = "#c4c4c4"
  /\ gridThickness = Half
  /\ sink = NoFaults
  /\ pc = "idle"
  /\ page = 0
  /\ i = 0
  /\ locals = NoLocals
  /\ doc = NoDoc
  /\ console = <<>>
  /\ result = NoResult
  /\ call = NoCall
  /\ AppState
  /\ limits = [drops |-> MaxFairDrops, loads |-> 1, clicks |-> MaxFairClicks,
               orders |-> 0, changes |-> 0, downloads |-> 0, events |-> FairEvents,
               sinks |-> BrowserSinks]

\* A step of generatePdf that moves pc.  While generatePdf runs, one of its
\* steps is possible, and the steps that leave pc alone go through the
\* images of one page
GeneratePdfStep ==
  /\ pc \in {"start", "page", "image"}
  /\ pc' \in {"page", "image", "done", "error"} \ {pc}

SpecFair ==
  /\ InitFair
  /\ [][NextBatches]_vars
  /\ WF_vars(TimerFires)
  /\ WF_pc(GeneratePdfStep)
  /\ WF_vars(CreatePdfUrlReturn)

(***************************************************************************)
(* The App with its download button                                        *)
(***************************************************************************)
MaxDownloads == 1
MaxDownloadClicks == 1

\* A download handler that hands whatever pdfUrl holds to the link
HandleDownloadUnguarded ==
  /\ pc = "idle"
  /\ used.downloads < limits.downloads
  /\ downloads' = Append(downloads, pdfUrl)
  /\ used' = [used EXCEPT !.downloads = @ + 1]
  /\ UNCHANGED <<loadedImages, imageOrder, pdfUrl, isGenerating, errors, warnings, loads,
                 timers, settings, prevPdfUrlRef, isGeneratingRef, objectUrls, limits,
                 generatePdfVars, call>>

\* handleDownload of ControlsPanel, called with the pdfUrl and isGenerating
\* of the last render: link.href = pdfUrl; link.click()
HandleDownload ==
  /\ pc = "idle"
  /\ used.downloads < limits.downloads
  /\ IF pdfUrl = NoUrl \/ isGenerating
     THEN UNCHANGED downloads
     ELSE downloads' = Append(downloads, pdfUrl)
  /\ used' = [used EXCEPT !.downloads = @ + 1]
  /\ UNCHANGED <<loadedImages, imageOrder, pdfUrl, isGenerating, errors, warnings, loads,
                 timers, settings, prevPdfUrlRef, isGeneratingRef, objectUrls, limits,
                 generatePdfVars, call>>

InitDownload ==
  /\ images = <<>>
  /\ rows = 4
  /\ cols = 1
  /\ orientation = "portrait"
  /\ gridEnabled = "solid"
  /\ gridColor = "#c4c4c4"
  /\ gridThickness = Half
  /\ sink = NoFaults
  /\ pc = "idle"
  /\ page = 0
  /\ i = 0
  /\ locals = NoLocals
  /\ doc = NoDoc
  /\ console = <<>>
  /\ result = NoResult
  /\ call = NoCall
  /\ AppState
  /\ limits = [drops |-> 1, loads |-> 1, clicks |-> MaxDownloadClicks, orders |-> 0,
               changes |-> 0, downloads |-> MaxDownloads,
               events |-> {<<FileA, FileB>>},
               sinks |-> {NoFaults, [rejects |-> {"output"}, message |-> "other"]}]

NextDownload ==
  \/ OnDrop \/ FileCallback \/ HandleGenerate \/ TimerFires \/ CreatePdfUrlReturn
  \/ HandleDownload \/ Next

SpecDownload == InitDownload /\ [][NextDownload]_vars

(***************************************************************************)
(* The App with drops that follow each other while files are loading       *)
(***************************************************************************)
MaxOverlap == 2
MaxOverlapDrops == 2

\* Batches of which every file loads
OverlapEvents == {<<FileA, FileB>>, <<FileB, FileA>>}

InitOverlap ==
  /\ images = <<>>
  /\ rows = 4
  /\ cols = 1
  /\ orientation = "portrait"
  /\ gridEnabled = "solid"
  /\ gridColor = "#c4c4c4"
  /\ gridThickness = Half
  /\ sink = NoFaults
  /\ pc = "idle"
  /\ page = 0
  /\ i = 0
  /\ locals = NoLocals
  /\ doc = NoDoc
  /\ console = <<>>
  /\ result = NoResult
  /\ call = NoCall
  /\ AppState
  /\ limits = [drops |-> MaxOverlapDrops, loads |-> MaxOverlap, clicks |-> 0,
               orders |-> 0, changes |-> 0, downloads |-> 0, events |-> OverlapEvents,
               sinks |-> {NoFaults}]

NextOverlap ==
  \/ OnDrop \/ FileCallback \/ TimerFires \/ CreatePdfUrlReturn \/ Next

SpecOverlap == InitOverlap /\ [][NextOverlap]_vars

(***************************************************************************)
(* The App with its Rows and Columns inputs: batches of every accepted     *)
(* size, from too few files to too many                                    *)
(***************************************************************************)
MaxSettingsDrops == 1
MaxSettingsClicks == 1
MaxChanges == 2

\* The largest batch that validateFileCount accepts
FullEvent == [j \in 1..MAX_FILE_COUNT |-> FileX]

SettingsEvents ==
  {<<FileA>>, <<FileA, FileB>>, <<FileA, FileC>>, FullEvent, TooManyEvent}

InitSettings ==
  /\ images = <<>>
  /\ rows = 4
  /\ cols = 1
  /\ orientation = "portrait"
  /\ gridEnabled = "solid"
  /\ gridColor = "#c4c4c4"
  /\ gridThickness = Half
  /\ sink = NoFaults
  /\ pc = "idle"
  /\ page = 0
  /\ i = 0
  /\ locals = NoLocals
  /\ doc = NoDoc
  /\ console = <<>>
  /\ result = NoResult
  /\ call = NoCall
  /\ AppState
  /\ limits = [drops |-> MaxSettingsDrops, loads |-> 1, clicks |-> MaxSettingsClicks,
               orders |-> 0, changes |-> MaxChanges, downloads |-> 0,
               events |-> SettingsEvents, sinks |-> {NoFaults}]

NextSettings ==
  \/ OnDrop \/ FileCallback \/ HandleGenerate \/ HandleRowsChange \/ HandleColsChange
  \/ TimerFires \/ CreatePdfUrlReturn \/ Next

SpecSettings == InitSettings /\ [][NextSettings]_vars

(***************************************************************************)
(* Properties of the helpers                                               *)
(***************************************************************************)
\* The ceiling of n / k over the integers
CeilDiv(n, k) == (n + k - 1) \div k

\* |a|
FAbs(a) == [a EXCEPT !.sgn = Abs(a.sgn)]

\* The floating tolerance of the layout: 1e-9 (mm, or relative)
Tolerance == FDiv(Num(1), Num(10^9))

\* a and b differ by at most tol
Near(a, b, tol) == FLe(FAbs(FSub(a, b)), tol)

\* C1: for every image count N >= 0 and every grid with rows >= 1 and
\* cols >= 1, the page count computed by generatePdf (for the N it accepts),
\* by validateGridConfig and by the App's pageCount is ceil(N / (rows * cols)).
C1_PageCountIsCeiling ==
  /\ call.fn \in {"generatePdf.pageCount", "App.pageCount"}
       => call.ret = CeilDiv(call.imageCount, call.rows * call.cols)
  /\ call.fn = "validateGridConfig"
       => call.ret.pageCount = CeilDiv(call.imageCount, call.rows * call.cols)

\* 13 images on a 3 x 4 grid: one full page and a page with one image
C1_Witness ==
  /\ call.fn = "validateGridConfig"
  /\ call.imageCount = 13 /\ call.rows = 3 /\ call.cols = 4
  /\ call.ret.pageCount = 2

IsCellCall == call.fn \in {"calculateCellSize", "generatePdf.cell"}

\* cellW * cols + (cols - 1) * gap and cellH * rows + (rows - 1) * gap
GridWidth(cell, c) == FAdd(FMul(cell.cellW, Num(c)), Num((c - 1) * GAP_MM))
GridHeight(cell, r) == FAdd(FMul(cell.cellH, Num(r)), Num((r - 1) * GAP_MM))

\* C4 as stated: for every rows >= 1, cols >= 1 and either orientation, the
\* cells and gaps never exceed the usable area:
\* cellW * cols + (cols - 1) * gap <= usableW and likewise for the height.
C4_GridWithinUsableArea ==
  IsCellCall =>
    /\ FLe(GridWidth(call.ret, call.cols), Num(usableW(call.orientation)))
    /\ FLe(GridHeight(call.ret, call.rows), Num(usableH(call.orientation)))

\* C4 as amended: the cells and gaps exceed the usable area by no more than
\* the floating tolerance.
C4_GridWithinTolerance ==
  IsCellCall =>
    /\ FLe(GridWidth(call.ret, call.cols),
           FAdd(Num(usableW(call.orientation)), Tolerance))
    /\ FLe(GridHeight(call.ret, call.rows),
           FAdd(Num(usableH(call.orientation)), Tolerance))

\* 11 columns on a portrait page: the cells and gaps add up to more than the
\* 198 mm of usable width
C4_Witness ==
  /\ call.fn = "generatePdf.cell"
  /\ call.cols = 11 /\ call.orientation = "portrait"
  /\ FLt(Num(usableW(call.orientation)), GridWidth(call.ret, call.cols))

IsFitCall == call.fn = "calculateImageRenderSize"

\* The size of the image in mm at scale 1
IntrinsicW == FDiv(Num(call.imgWPx), PX_PER_MM)
IntrinsicH == FDiv(Num(call.imgHPx), PX_PER_MM)

\* C7: no-upscale law: for every positive image and cell size the render
\* width is at most wPx / pxPerMm and the render height at most
\* hPx / pxPerMm, and an image smaller than the cell in both dimensions is
\* rendered at exactly its intrinsic size.
C7_NoUpscale ==
  IsFitCall =>
    /\ FLe(call.ret.renderWMm, IntrinsicW)
    /\ FLe(call.ret.renderHMm, IntrinsicH)
    /\ FLt(IntrinsicW, call.cellWMm) /\ FLt(IntrinsicH, call.cellHMm)
         => call.ret.renderWMm = IntrinsicW /\ call.ret.renderHMm = IntrinsicH

\* A 100 x 100 px image in a 40 x 40 mm cell keeps its 26.46 mm
C7_Witness ==
  /\ IsFitCall
  /\ call.imgWPx = 100 /\ call.imgHPx = 100
  /\ call.cellWMm = Num(40) /\ call.cellHMm = Num(40)
  /\ call.ret.renderWMm = IntrinsicW
  /\ FLt(call.ret.renderWMm, call.cellWMm)

FitsAtScaleOne == FLe(IntrinsicW, call.cellWMm) /\ FLe(IntrinsicH, call.cellHMm)

\* C9 as stated: the aspect ratio is preserved exactly,
\* renderW * imgH = renderH * imgW, and when the image does not fit the cell
\* at scale 1 a render dimension equals the cell dimension.
C9_ExactAspectAndFit ==
  IsFitCall =>
    /\ FMul(call.ret.renderWMm, Num(call.imgHPx)) = FMul(call.ret.renderHMm, Num(call.imgWPx))
    /\ ~FitsAtScaleOne
         => call.ret.renderWMm = call.cellWMm \/ call.ret.renderHMm = call.cellHMm

\* C9 as amended: the aspect ratio is preserved and a render dimension
\* matches the cell dimension up to the floating tolerance; 2000 x 1000 px in
\* a 40 x 40 mm cell renders 40 x 20 mm exactly.
C9_AspectAndFitWithinTolerance ==
  IsFitCall =>
    /\ Near(FMul(call.ret.renderWMm, Num(call.imgHPx)),
            FMul(call.ret.renderHMm, Num(call.imgWPx)),
            FMul(Tolerance, FMul(call.ret.renderWMm, Num(call.imgHPx))))
    /\ ~FitsAtScaleOne
         => \/ Near(call.ret.renderWMm, call.cellWMm, Tolerance)
            \/ Near(call.ret.renderHMm, call.cellHMm, Tolerance)
    /\ (call.imgWPx = 2000 /\ call.imgHPx = 1000
        /\ call.cellWMm = Num(40) /\ call.cellHMm = Num(40))
         => call.ret.renderWMm = Num(40) /\ call.ret.renderHMm = Num(20)

\* A downscaled image whose render size differs from the cell in both
\* dimensions, one of them by a rounding error
C9_Witness ==
  /\ IsFitCall
  /\ ~FitsAtScaleOne
  /\ call.ret.renderWMm # call.cellWMm /\ call.ret.renderHMm # call.cellHMm
  /\ Near(call.ret.renderWMm, call.cellWMm, Tolerance)

(***************************************************************************)
(* Properties of generatePdf                                               *)
(***************************************************************************)
IsImage(c) == c.op = "addImage"
IsLine(c) == c.op = "line"

\* The addImage commands the document accepted, in order
ImageCmds == SelectSeq(doc.cmds, IsImage)

\* The slice of page p (0-based): p * imagesPerPage ..
\* min((p + 1) * imagesPerPage, N) - 1
InSlice(idx, p) ==
  /\ p * (rows * cols) <= idx
  /\ idx < (p + 1) * (rows * cols)
  /\ idx < Len(images)

\* How many times the image loop has handled index k: it either hands the
\* image to the document or warns on the console
Visits(k) ==
  Cardinality({m \in DOMAIN doc.cmds : IsImage(doc.cmds[m]) /\ doc.cmds[m].idx = k})
  + Cardinality({m \in DOMAIN console : console[m].idx = k})

\* C2: page p (0-based) handles exactly the indices of its slice, every
\* index is handled on exactly one page, and the images reach the document
\* in input order.
C2_ConsecutiveSlices ==
  /\ \A m \in DOMAIN doc.cmds :
       IsImage(doc.cmds[m]) => InSlice(doc.cmds[m].idx, doc.cmds[m].page - 1)
  /\ \A m \in DOMAIN console : InSlice(console[m].idx, console[m].page - 1)
  /\ \A m, n \in DOMAIN ImageCmds : m < n => ImageCmds[m].idx < ImageCmds[n].idx
  /\ \A k \in 0..(Len(images) - 1) : Visits(k) <= 1
  /\ pc = "done" => \A k \in 0..(Len(images) - 1) : Visits(k) = 1

\* Five images, two to a page: three pages, the last one partly filled
C2_Witness ==
  /\ pc = "done"
  /\ Len(images) = 5 /\ rows * cols = 2
  /\ doc.pages = 3
  /\ [m \in DOMAIN ImageCmds |-> ImageCmds[m].idx] = <<0, 1, 2, 3, 4>>

\* The index of an image within its page
LocalIdx(c) == c.idx - (c.page - 1) * (rows * cols)

\* C3: the image at local index i of a page is in cell (i div cols,
\* i mod cols); that cell is at the same place and of the same size on every
\* page, the partly filled last one included, and an image of the same pixel
\* size is rendered at the same size there.
C3_RowMajorCells ==
  /\ \A m \in DOMAIN ImageCmds :
       /\ ImageCmds[m].row = LocalIdx(ImageCmds[m]) \div cols
       /\ ImageCmds[m].col = LocalIdx(ImageCmds[m]) % cols
  /\ \A m, n \in DOMAIN ImageCmds :
       /\ ImageCmds[m].cellW = ImageCmds[n].cellW
       /\ ImageCmds[m].cellH = ImageCmds[n].cellH
       /\ LocalIdx(ImageCmds[m]) = LocalIdx(ImageCmds[n])
            => /\ ImageCmds[m].cellX = ImageCmds[n].cellX
               /\ ImageCmds[m].cellY = ImageCmds[n].cellY
               /\ images[ImageCmds[m].idx + 1] = images[ImageCmds[n].idx + 1]
                    => /\ ImageCmds[m].x = ImageCmds[n].x
                       /\ ImageCmds[m].y = ImageCmds[n].y
                       /\ ImageCmds[m].w = ImageCmds[n].w
                       /\ ImageCmds[m].h = ImageCmds[n].h

\* 5 images, rows = 2, cols = 2, portrait: page 0 has 4 images in cells
\* (0,0) (0,1) (1,0) (1,1), page 1 has 1 image in cell (0,0)
C3_Witness ==
  /\ pc = "done"
  /\ Len(images) = 5 /\ rows = 2 /\ cols = 2 /\ orientation = "portrait"
  /\ result.pageCount = 2
  /\ [m \in DOMAIN ImageCmds |-> <<ImageCmds[m].page, ImageCmds[m].row, ImageCmds[m].col>>]
       = << <<1, 0, 0>>, <<1, 0, 1>>, <<1, 1, 0>>, <<1, 1, 1>>, <<2, 0, 0>> >>

\* rows < 1, cols < 1, or a cell width or height that is not positive
InvalidGrid ==
  \/ rows < 1
  \/ cols < 1
  \/ PageSize(orientation).width - 2 * MARGIN_MM - (cols - 1) * GAP_MM <= 0
  \/ PageSize(orientation).height - 2 * MARGIN_MM - (rows - 1) * GAP_MM <= 0

\* C5: with rows < 1, cols < 1 or a cell size <= 0, generatePdf fails with
\* a validation error, returns nothing and emits no image and no line.
C5_InvalidGridIsFatal ==
  InvalidGrid =>
    /\ pc \in {"start", "error"}
    /\ doc.cmds = <<>>
    /\ pc = "error" => result.status = "error" /\ result.type = "validation"

\* 100 columns on a portrait page: cellW = 0
C5_Witness ==
  /\ pc = "error"
  /\ rows >= 1 /\ cols = TooManyCols /\ orientation = "portrait" /\ Len(images) > 0
  /\ result.type = "validation"
  /\ result.message = "Grid configuration results in invalid cell size"

\* C6: with zero images generatePdf emits no page, returns no blob and
\* reports the empty input as a validation error, whatever the rows, cols,
\* orientation and separator style.
C6_EmptyInputIsFatal ==
  Len(images) = 0 =>
    /\ pc \in {"start", "error"}
    /\ doc = NoDoc
    /\ pc = "error"
         => result = [status |-> "error", type |-> "validation",
                      message |-> "No images provided"]

\* No images and a grid that is invalid as well
C6_Witness ==
  /\ pc = "error"
  /\ Len(images) = 0 /\ rows = 0 /\ gridEnabled = "dashed"
  /\ result.message = "No images provided"

\* The command the document accepted last is an addImage.  Commands are only
\* appended, one image at a time, so every placed image is the last command
\* of some state.
ImagePlaced == doc.cmds # <<>> /\ IsImage(doc.cmds[Len(doc.cmds)])
Placed == doc.cmds[Len(doc.cmds)]

\* (cellW - renderW) / 2 and (cellH - renderH) / 2
OffsetX(c) == FDiv(FSub(c.cellW, c.w), Num(2))
OffsetY(c) == FDiv(FSub(c.cellH, c.h), Num(2))

\* C8 as stated: for every placed image the centering offsets are >= 0 and
\* the render rectangle lies within its cell:
\* cellX <= imgX, imgX + renderW <= cellX + cellW, and likewise in y.
C8_ImageWithinCell ==
  ImagePlaced =>
    /\ OffsetX(Placed).sgn >= 0
    /\ OffsetY(Placed).sgn >= 0
    /\ FLe(Placed.cellX, Placed.x)
    /\ FLe(Placed.cellY, Placed.y)
    /\ FLe(FAdd(Placed.x, Placed.w), FAdd(Placed.cellX, Placed.cellW))
    /\ FLe(FAdd(Placed.y, Placed.h), FAdd(Placed.cellY, Placed.cellH))

\* C8 as amended: the offsets are >= 0 and the render rectangle lies within
\* its cell up to the floating tolerance.
C8_ImageWithinCellTolerance ==
  ImagePlaced =>
    /\ FLe(FNeg(Tolerance), OffsetX(Placed))
    /\ FLe(FNeg(Tolerance), OffsetY(Placed))
    /\ FLe(FSub(Placed.cellX, Tolerance), Placed.x)
    /\ FLe(FSub(Placed.cellY, Tolerance), Placed.y)
    /\ FLe(FAdd(Placed.x, Placed.w), FAdd(FAdd(Placed.cellX, Placed.cellW), Tolerance))
    /\ FLe(FAdd(Placed.y, Placed.h), FAdd(FAdd(Placed.cellY, Placed.cellH), Tolerance))

\* An image scaled down to the cell width whose render width exceeds the
\* cell width by a rounding error
C8_Witness ==
  /\ ImagePlaced
  /\ OffsetX(Placed).sgn < 0
  /\ FLe(FNeg(Tolerance), OffsetX(Placed))

\* The lines drawn on page p (1-based) in direction dir, in order
LinesOn(p, dir) ==
  SelectSeq(doc.cmds, LAMBDA c : IsLine(c) /\ c.page = p /\ c.dir = dir)

\* Line k lies between cell k - 1 and cell k, off every edge and margin
Interior(pos, k, cell, pageDim) ==
  /\ FLt(Zero, pos) /\ FLt(pos, Num(pageDim))
  /\ FLt(Num(MARGIN_MM), pos) /\ FLt(pos, Num(pageDim - MARGIN_MM))
  /\ FLt(FAdd(CellOrigin(k - 1, cell), cell), pos)
  /\ FLt(pos, CellOrigin(k, cell))

VerticalsOk(lines) ==
  /\ Len(lines) = cols - 1
  /\ \A k \in DOMAIN lines :
       /\ lines[k].k = k
       /\ lines[k].x1 = lines[k].x2
       /\ Interior(lines[k].x1, k, locals.cellW, PageSize(orientation).width)

HorizontalsOk(lines) ==
  /\ Len(lines) = rows - 1
  /\ \A k \in DOMAIN lines :
       /\ lines[k].k = k
       /\ lines[k].y1 = lines[k].y2
       /\ Interior(lines[k].y1, k, locals.cellH, PageSize(orientation).height)

\* C10: with a solid or dashed separator, every finished page, a partly
\* filled last page included, has exactly cols - 1 vertical and rows - 1
\* horizontal lines, one per interior boundary, none of them on a page edge
\* or on a margin.
C10_InteriorLinesOnly ==
  gridEnabled \in {"solid", "dashed"} =>
    \A p \in 1..page : VerticalsOk(LinesOn(p, "vertical"))
                       /\ HorizontalsOk(LinesOn(p, "horizontal"))

\* 5 images on a 2 x 2 grid with dashed separators: the second page holds
\* one image and has its vertical and its horizontal line
C10_Witness ==
  /\ pc = "done"
  /\ gridEnabled = "dashed" /\ rows = 2 /\ cols = 2 /\ Len(images) = 5
  /\ page = 2
  /\ Len(LinesOn(2, "vertical")) = 1 /\ Len(LinesOn(2, "horizontal")) = 1

\* The separator lines the document accepted, in order
LineCmds == SelectSeq(doc.cmds, IsLine)

\* The coordinate of a line across its direction, and the cell size there
PosOf(c) == IF c.dir = "vertical" THEN c.x1 ELSE c.y1
CellOf(c) == IF c.dir = "vertical" THEN locals.cellW ELSE locals.cellH

\* The middle of the gap between cell k - 1 and cell k
GapMiddle(k, cell) ==
  FDiv(FAdd(FAdd(CellOrigin(k - 1, cell), cell), CellOrigin(k, cell)), Num(2))

\* margin + k * (cell + gap) - gap / 2
BoundaryFormula(k, cell) ==
  FSub(FAdd(Num(MARGIN_MM), FMul(Num(k), FAdd(cell, Num(GAP_MM)))),
       FDiv(Num(GAP_MM), Num(2)))

\* margin + k * cell + (k - 1) * gap + gap / 2
SeparatorFormula(k, cell) ==
  FAdd(FAdd(FAdd(Num(MARGIN_MM), FMul(Num(k), cell)),
            FMul(Num(k - 1), Num(GAP_MM))),
       FDiv(Num(GAP_MM), Num(2)))

\* A line runs straight from margin to pageDim - margin on the other axis
SpansPage(c) ==
  IF c.dir = "vertical"
  THEN /\ c.x1 = c.x2
       /\ c.y1 = Num(MARGIN_MM)
       /\ c.y2 = FSub(Num(PageSize(orientation).height), Num(MARGIN_MM))
  ELSE /\ c.y1 = c.y2
       /\ c.x1 = Num(MARGIN_MM)
       /\ c.x2 = FSub(Num(PageSize(orientation).width), Num(MARGIN_MM))

\* C11 as stated: separator k is at margin + k * cell + (k - 1) * gap + gap / 2,
\* which is exactly the middle of the gap between cell k - 1 and cell k and
\* equals margin + k * (cell + gap) - gap / 2, in both directions; each line
\* spans margin .. pageDim - margin on the other axis.
C11_SeparatorExactlyMidway ==
  \A m \in DOMAIN LineCmds :
    /\ PosOf(LineCmds[m]) = SeparatorFormula(LineCmds[m].k, CellOf(LineCmds[m]))
    /\ PosOf(LineCmds[m]) = GapMiddle(LineCmds[m].k, CellOf(LineCmds[m]))
    /\ PosOf(LineCmds[m]) = BoundaryFormula(LineCmds[m].k, CellOf(LineCmds[m]))
    /\ SpansPage(LineCmds[m])

\* C11, amended: separator k is at margin + k * cell + (k - 1) * gap + gap / 2,
\* which is the middle of the gap between cell k - 1 and cell k and equals
\* margin + k * (cell + gap) - gap / 2 within floating tolerance, in both
\* directions; each line spans margin .. pageDim - margin on the other axis.
C11_SeparatorMidwayWithinTolerance ==
  \A m \in DOMAIN LineCmds :
    /\ PosOf(LineCmds[m]) = SeparatorFormula(LineCmds[m].k, CellOf(LineCmds[m]))
    /\ Near(PosOf(LineCmds[m]), GapMiddle(LineCmds[m].k, CellOf(LineCmds[m])), Tolerance)
    /\ Near(PosOf(LineCmds[m]), BoundaryFormula(LineCmds[m].k, CellOf(LineCmds[m])),
            Tolerance)
    /\ SpansPage(LineCmds[m])

\* Six columns in portrait: the third separator is drawn at 105 mm, one ulp
\* off the middle of its gap
C11_Witness ==
  /\ pc = "done"
  /\ cols = ThirdsCols /\ orientation = "portrait"
  /\ \E m \in DOMAIN LineCmds :
       /\ LineCmds[m].dir = "vertical" /\ LineCmds[m].k = 3
       /\ LineCmds[m].x1 = Num(105)
       /\ LineCmds[m].x1 # GapMiddle(3, locals.cellW)
       /\ Near(LineCmds[m].x1, GapMiddle(3, locals.cellW), Tolerance)

\* C12: no separator line is emitted on any page when the separator style
\* is 'none' or unset, and none for a 1 x 1 grid whatever the style; with
\* rows = 1 only vertical lines and with cols = 1 only horizontal lines are
\* emitted.
C12_NoLinesWithoutSeparators ==
  /\ gridEnabled \in {"unset", "none"} => LineCmds = <<>>
  /\ (rows = 1 /\ cols = 1) => LineCmds = <<>>
  /\ rows = 1 => \A m \in DOMAIN LineCmds : LineCmds[m].dir = "vertical"
  /\ cols = 1 => \A m \in DOMAIN LineCmds : LineCmds[m].dir = "horizontal"

\* Three images in one dashed row of two: two finished pages, each with its
\* one vertical line
C12_Witness ==
  /\ pc = "done"
  /\ gridEnabled = "dashed" /\ rows = 1 /\ cols = 2 /\ Len(images) = 3
  /\ Len(LineCmds) = 2
  /\ \A m \in DOMAIN LineCmds : LineCmds[m].dir = "vertical"

\* The page (1-based), row and column that belong to index k on a full grid
PageOf(k) == k \div (rows * cols) + 1
RowOf(k) == (k % (rows * cols)) \div cols
ColOf(k) == (k % (rows * cols)) % cols

\* C13: an image whose width or height is missing or <= 0 is skipped without
\* aborting the run: no image is drawn for it and its cell stays empty, every
\* image that is drawn is on the page and in the cell that its index alone
\* determines (nothing shifts into the gap), and the run ends with the page
\* count ceil(N / (rows * cols)) of the full list.
C13_InvalidImageLeavesGap ==
  /\ \A k \in 0..(Len(images) - 1) :
       InvalidDimensions(images[k + 1]) =>
         \A m \in DOMAIN ImageCmds :
           /\ ImageCmds[m].idx # k
           /\ ~ /\ ImageCmds[m].page = PageOf(k)
                /\ ImageCmds[m].row = RowOf(k)
                /\ ImageCmds[m].col = ColOf(k)
  /\ \A m \in DOMAIN ImageCmds :
       /\ ImageCmds[m].page = PageOf(ImageCmds[m].idx)
       /\ ImageCmds[m].row = RowOf(ImageCmds[m].idx)
       /\ ImageCmds[m].col = ColOf(ImageCmds[m].idx)
       /\ ImageCmds[m].cellX = CellOrigin(ColOf(ImageCmds[m].idx), locals.cellW)
       /\ ImageCmds[m].cellY = CellOrigin(RowOf(ImageCmds[m].idx), locals.cellH)
  /\ (Len(images) > 0 /\ ~InvalidGrid) => pc # "error"
  /\ pc = "done" =>
       /\ result.status = "ok"
       /\ result.pageCount = CeilDiv(Len(images), rows * cols)
       /\ doc.pages = result.pageCount

\* A row of two cells, the first image without a width: the run finishes with
\* one page whose only image is image 1 in column 1
C13_Witness ==
  /\ pc = "done"
  /\ rows = 1 /\ cols = 2 /\ Len(images) = 2
  /\ InvalidDimensions(images[1]) /\ ~InvalidDimensions(images[2])
  /\ Len(ImageCmds) = 1
  /\ ImageCmds[1].idx = 1 /\ ImageCmds[1].col = 1 /\ ImageCmds[1].page = 1
  /\ result.pageCount = 1

\* The indices of the images the image loop skips for their dimensions
SkippedIdx == {k \in 0..(Len(images) - 1) : InvalidDimensions(images[k + 1])}

\* C14: when images were skipped for invalid dimensions, the value generatePdf
\* returns carries a list that identifies every skipped image.
C14_SkippedImagesReturned ==
  (pc = "done" /\ SkippedIdx # {}) =>
    /\ "skipped" \in DOMAIN result
    /\ {result.skipped[m] : m \in DOMAIN result.skipped} = SkippedIdx

\* The sink rejected the placement of an image that the image loop handed to it
ImageRejected == \E m \in DOMAIN console : console[m].warn = "addImage failed"

\* The run has to meet a command that the sink rejects
MeetsRejection ==
  \/ "new" \in sink.rejects
  \/ "addPage" \in sink.rejects /\ Len(images) > rows * cols
  \/ \E k \in DOMAIN images :
       ~InvalidDimensions(images[k]) /\ (~images[k].payloadOk \/ "addImage" \in sink.rejects)
  \/ "draw" \in sink.rejects /\ GridLinesEnabled
  \/ "output" \in sink.rejects

\* C15: when the sink rejects a draw command (an image, a line, a page) or the
\* finalization, generatePdf ends with one terminal error and returns no blob:
\* a run that met a rejection never ends as a success, and a failed run
\* carries an error and no document.
C15_SinkFailureIsTerminal ==
  /\ pc = "done" => ~ImageRejected /\ ~MeetsRejection
  /\ pc = "error" => /\ result.status = "error"
                     /\ "blob" \notin DOMAIN result

\* C15 without the image placements: a rejected line, page, construction or
\* finalization ends the run with one terminal error and no blob.
SinkFailureOutsideImagesIsTerminal ==
  /\ (pc = "done" /\ ~ImageRejected) => ~MeetsRejection
  /\ pc = "error" => /\ result.status = "error"
                     /\ "blob" \notin DOMAIN result

\* The commands that draw the separator lines of a page
IsGridCmd(c) == c.op \in {"setDrawColor", "setLineWidth", "setLineDashPattern", "line"}

\* The positions of the commands with operation op
CmdsOf(op) == {m \in DOMAIN doc.cmds : doc.cmds[m].op = op}

\* C16: the commands reach the document in protocol order: the page numbers
\* never decrease, the n-th addPage opens page n + 1, on each page every image
\* placement (in list order) precedes every separator-line command, output
\* comes once and last, and the finished document has exactly pageCount
\* pages with one addPage for each page after the first.
C16_SinkProtocolOrder ==
  /\ \A m, n \in DOMAIN doc.cmds :
       m < n =>
         /\ doc.cmds[m].page <= doc.cmds[n].page
         /\ doc.cmds[m].op # "output"
         /\ (doc.cmds[m].page = doc.cmds[n].page /\ IsGridCmd(doc.cmds[m]))
              => ~IsImage(doc.cmds[n])
         /\ (IsImage(doc.cmds[m]) /\ IsImage(doc.cmds[n]))
              => doc.cmds[m].idx < doc.cmds[n].idx
         /\ doc.cmds[n].op = "addPage" => doc.cmds[m].page < doc.cmds[n].page
  /\ \A m \in CmdsOf("addPage") :
       doc.cmds[m].page = Cardinality({n \in CmdsOf("addPage") : n <= m}) + 1
  /\ Cardinality(CmdsOf("addPage")) = (IF doc.pages = 0 THEN 0 ELSE doc.pages - 1)
  /\ CmdsOf("output") # {} <=> pc = "done"
  /\ pc = "done" =>
       /\ doc.pages = locals.pageCount
       /\ doc.pages = CeilDiv(Len(images), rows * cols)
       /\ doc.cmds[Len(doc.cmds)] = [op |-> "output", page |-> locals.pageCount]

\* Five images on a dashed grid of two cells: three pages, two addPage
\* commands, images and lines on every page, output last
C16_Witness ==
  /\ pc = "done"
  /\ Len(images) = 5 /\ rows * cols = 2 /\ gridEnabled = "dashed"
  /\ doc.pages = 3
  /\ Cardinality(CmdsOf("addPage")) = 2
  /\ Len(ImageCmds) = 5
  /\ Len(LineCmds) = 3
  /\ doc.cmds[Len(doc.cmds)].op = "output"

Names(seq) == [k \in 1..Len(seq) |-> seq[k].name]

\* The orders that orderImages may hand to generatePdf for an array
OrdersOf(array, order) ==
  IF order = "reverse" THEN {Reverse(array)}
  ELSE IF order = "random"
  THEN {o \in [1..Len(array) -> {array[k] : k \in DOMAIN array}] :
          \A k \in DOMAIN array : \E m \in DOMAIN o : o[m] = array[k]}
  ELSE {array}

\* C18: generation never changes its inputs.  While createPdfUrl runs, the
\* loaded image list and the arrays kept by the pending timers stay as they
\* are; generatePdf leaves the sequence it was given, records included, as it
\* is; and the sequence generatePdf gets is the kept array in the same order,
\* in reverse order (every time the same one) or in some permutation.
C18_GenerationLeavesInputs ==
  [][ /\ (pc # "idle" \/ pc' # "idle") => loadedImages' = loadedImages
      /\ pc \in {"start", "page", "image"} => (images' = images /\ timers' = timers)
      /\ (pc = "idle" /\ pc' = "start") =>
           \E n \in DOMAIN timers :
             /\ timers' = RemoveAt(timers, n)
             /\ images' \in OrdersOf(timers[n].images, timers[n].imageOrder)
    ]_vars

\* The preview was generated in reverse order, and the next generation has
\* just been handed the same reversed sequence, the loaded list still being
\* in drop order
C18_Witness ==
  /\ pc = "start"
  /\ imageOrder = "reverse"
  /\ ~pdfUrl.null /\ pdfUrl.pageCount = 1 /\ pdfUrl.images = <<"b", "a">>
  /\ Names(images) = <<"b", "a">>
  /\ Names(loadedImages) = <<"a", "b">>

\* A file that its callbacks resolve with an image, whatever they do
Survives(file) ==
  /\ file.outcomes = {"load"}
  /\ validateImageDimensions(file.wPx, file.hPx)

\* The files of a drop event that pass the type filter, the validation and
\* the loading, in the order of the event
Survivors(event) ==
  SelectSeq(event, LAMBDA f : IsImageFile(f) /\ validateFile(f, 0) /\ Survives(f))

\* The messages that end the errors of a rejected drop
BatchErrors ==
  { "Too many files", "Please drop a batch (2+ files) at once.",
    "Not enough valid images. Please provide at least 2 valid image files.",
    "Not enough images loaded successfully. Need at least 2." }

C20_LoadedInDropOrder ==
  [][ /\ loadedImages' # loadedImages =>
           \E d \in DOMAIN loads :
             /\ loads' = RemoveAt(loads, d)
             /\ Names(loadedImages') = Names(Survivors(loads[d].event))
      /\ \A d \in DOMAIN loads :
           (loads' = RemoveAt(loads, d) /\ Len(Survivors(loads[d].event)) >= 2) =>
             Names(loadedImages') = Names(Survivors(loads[d].event))
    ]_vars

\* The drop delivered b, then a failing file, then a: the list is b, a
C20_Witness ==
  /\ pc = "idle"
  /\ Names(loadedImages) = <<"b", "a">>
  /\ warnings = <<"Failed: c", "image(s) could not be loaded",
                  "Warning: Images have different dimensions. They will be scaled to fit.">>

(***************************************************************************)
(* Properties of validateGridConfig                                        *)
(***************************************************************************)
\* A cell is below MIN_CELL_SIZE_MM in exact arithmetic:
\* (usable - (n - 1) * gap) / n < MIN_CELL_SIZE_MM
BelowMinCell(pageDim, n) ==
  pageDim - 2 * MARGIN_MM - (n - 1) * GAP_MM < MIN_CELL_SIZE_MM * n

\* C21: validateGridConfig gives the small-cell warning exactly when the cell
\* width or the cell height is below 10 mm, and the cell size it reports is
\* the one generatePdf computes; for 20 x 20 on A4 portrait the cell width is
\* exactly 8 mm, the small-cell warning is given and the large-grid warning
\* is not.
C21_SmallCellWarning ==
  call.fn = "validateGridConfig" =>
    /\ call.ret.cellW = CellW(call.cols, call.orientation)
    /\ call.ret.cellH = CellH(call.rows, call.orientation)
    /\ (\E k \in DOMAIN call.ret.warnings : call.ret.warnings[k] = "small cells")
         <=> (\/ BelowMinCell(PageSize(call.orientation).width, call.cols)
              \/ BelowMinCell(PageSize(call.orientation).height, call.rows))
    /\ (call.rows = 20 /\ call.cols = 20 /\ call.orientation = "portrait") =>
         /\ call.ret.cellW = Num(8)
         /\ call.ret.warnings = <<"small cells">>

C21_Witness ==
  /\ call.fn = "validateGridConfig"
  /\ call.rows = 20 /\ call.cols = 20 /\ call.orientation = "portrait"
  /\ call.imageCount = 2
  /\ call.ret.warnings = <<"small cells">>

(***************************************************************************)
(* Properties of the App with small and large batches                      *)
(***************************************************************************)
\* Two sequences of names hold the same names, each as often
SameNames(n1, n2) ==
  /\ Len(n1) = Len(n2)
  /\ \A k \in DOMAIN n1 :
       Cardinality({m \in DOMAIN n1 : n1[m] = n1[k]})
         = Cardinality({m \in DOMAIN n2 : n2[m] = n1[k]})

\* C22: when the App is between callbacks and no generation timer is pending,
\* a preview on display was generated from the loaded image list.
C22_PreviewOfLoadedImages ==
  (pc = "idle" /\ timers = <<>> /\ ~pdfUrl.null) =>
    SameNames(pdfUrl.images, Names(loadedImages))

\* The pending timers of the auto-generation
AutoTimers(ts) == SelectSeq(ts, LAMBDA t : t.kind = "auto")

\* C23: at most one auto-generation timer is pending, and it is the one of
\* the loaded batch, which has 2 to 39 images; a load that ends with 2 to 39
\* images leaves its own timer as the only auto-generation timer, and a load
\* that ends with 40 or more images leaves none and clears the preview.
C23_DebouncedAutoGeneration ==
  [][ /\ Len(AutoTimers(timers')) <= 1
      /\ \A k \in DOMAIN timers' :
           timers'[k].kind = "auto" =>
             /\ timers'[k].images = loadedImages'
             /\ Len(loadedImages') >= 2 /\ Len(loadedImages') < 40
      /\ \A d \in DOMAIN loads :
           (loads' = RemoveAt(loads, d) /\ errors' = errors) =>
             IF Len(loadedImages') < 40
             THEN /\ Len(AutoTimers(timers')) = 1
                  /\ timers'[Len(timers')].kind = "auto"
             ELSE /\ AutoTimers(timers') = <<>>
                  /\ pdfUrl' = NoUrl
    ]_vars

\* A batch of 40 images replaced a batch whose preview was on display
C23_Witness ==
  /\ pc = "idle"
  /\ Len(loadedImages) >= 40
  /\ pdfUrl = NoUrl
  /\ timers = <<>>
  /\ objectUrls.created = 1 /\ objectUrls.live = {}

\* C25: between callbacks at most one blob URL is not revoked; a preview on
\* display is that URL, and it is the one kept in prevPdfUrlRef; the start of
\* a generation revokes the URL of the previous one, and after a generation
\* that failed there is no preview and no URL that is not revoked.
C25_BlobUrlLifecycle ==
  [][ /\ pc' = "idle" =>
           /\ Cardinality(objectUrls'.live) <= 1
           /\ ~pdfUrl'.null => (objectUrls'.live = {pdfUrl'.id} /\ prevPdfUrlRef' = pdfUrl')
      /\ (pc = "idle" /\ pc' = "start") => objectUrls'.live = {}
      /\ (pc = "error" /\ pc' = "idle") => (pdfUrl' = NoUrl /\ objectUrls'.live = {})
      /\ (pc = "done" /\ pc' = "idle" /\ errors' # errors) =>
           (pdfUrl' = NoUrl /\ objectUrls'.live = {})
    ]_vars

\* The second preview is on display and the URL of the first one is revoked
C25_Witness ==
  /\ pc = "idle"
  /\ ~pdfUrl.null /\ pdfUrl.id = 2
  /\ objectUrls = [created |-> 2, live |-> {2}]

\* A generation failed after a preview had been on display
C25_WitnessFailed ==
  /\ pc = "idle"
  /\ pdfUrl = NoUrl
  /\ objectUrls = [created |-> 1, live |-> {}]
  /\ Len(errors) = 1 /\ Len(loadedImages) = 2

\* A step taken while generatePdf runs moves pc or goes on to the next image
GeneratePdfRuns ==
  [][(pc \in {"start", "page", "image"}) => (GeneratePdfStep \/ i' = i + 1)]_vars

\* C27: whenever isGenerating is true it becomes false again, and the lock
\* isGeneratingRef is false whenever no call of createPdfUrl is executing.
C27_GeneratingEnds ==
  /\ [](pc = "idle" => ~isGeneratingRef)
  /\ (isGenerating ~> ~isGenerating)

\* isGenerating is true and the auto-generation it was set for is replaced
\* by the one of a newer batch
C27_Witness ==
  /\ pc = "idle"
  /\ isGenerating
  /\ used.drops = 2 /\ loads = <<>>
  /\ Len(timers) = 1 /\ timers[1].kind = "auto"
  /\ objectUrls.created = 0 /\ errors = <<>>

\* A generation failed and isGenerating is false again
C27_WitnessFailed ==
  /\ pc = "idle"
  /\ ~isGenerating /\ ~isGeneratingRef
  /\ errors = <<"Failed to create PDF file">>

(***************************************************************************)
(* Properties of the download button                                       *)
(***************************************************************************)
\* C26: a call of the download handler while isGenerating is true or pdfUrl
\* is null hands nothing to the download link and changes nothing of the App;
\* a URL handed to the link is the pdfUrl on display, it is not revoked, and
\* no generation is in progress.
C26_DownloadGuard ==
  [][ /\ (used'.downloads # used.downloads /\ (isGenerating \/ pdfUrl = NoUrl)) =>
           /\ downloads' = downloads
           /\ <<loadedImages, pdfUrl, isGenerating, errors, timers, loads, objectUrls>>'
                = <<loadedImages, pdfUrl, isGenerating, errors, timers, loads, objectUrls>>
      /\ downloads' # downloads =>
           /\ ~isGenerating /\ pdfUrl # NoUrl
           /\ downloads' = Append(downloads, pdfUrl)
           /\ pdfUrl.id \in objectUrls.live
    ]_vars

\* The download handler was called while a second generation was pending
\* and the first preview was still on display: nothing was downloaded
C26_Witness ==
  /\ used.downloads = 1
  /\ downloads = <<>>
  /\ isGenerating /\ pdfUrl # NoUrl

\* A preview was downloaded
C26_WitnessDownloaded ==
  /\ Len(downloads) = 1 /\ downloads[1] = pdfUrl

(***************************************************************************)
(* Properties of the App with overlapping loads                            *)
(***************************************************************************)
\* C24: every drop here is a batch of which every file loads.  When the last
\* load in flight ends and it is the load of an earlier drop than the last
\* one, the load of the last drop has ended before and the image list is its
\* batch: the list stays as it is.
C24_LaterDropWins ==
  [][ (/\ Len(loads) = 1
       /\ loads' = <<>>
       /\ loads[1].drop < used.drops) => loadedImages' = loadedImages
    ]_vars

\* generatePdf is running or has just returned to createPdfUrl
Invoked == pc # "idle"

\* C28: in every state of the App the loaded list is empty or holds 2 to 200
\* images, each at least 1 px wide and high, and rows and cols are integers
\* of at least 1; every call of generatePdf by the App has images, each at
\* least 1 px wide and high, and rows and cols of at least 1.
C28_ValidInputs ==
  /\ Len(loadedImages) = 0 \/ Len(loadedImages) \in 2..MAX_FILE_COUNT
  /\ \A k \in DOMAIN loadedImages : loadedImages[k].wPx >= 1 /\ loadedImages[k].hPx >= 1
  /\ settings.rows \in Nat /\ settings.rows >= 1
  /\ settings.cols \in Nat /\ settings.cols >= 1
  /\ Invoked =>
       /\ images # <<>>
       /\ \A k \in DOMAIN images : images[k].wPx >= 1 /\ images[k].hPx >= 1
       /\ rows \in Nat /\ rows >= 1
       /\ cols \in Nat /\ cols >= 1

\* generatePdf is called with the largest batch, after both inputs changed
C28_Witness ==
  /\ pc = "start"
  /\ Len(images) = MAX_FILE_COUNT
  /\ Len(loadedImages) = MAX_FILE_COUNT
  /\ used.changes = 2
  /\ rows = 1 /\ cols = 2

\* validateGridConfig for what a timer will hand to createPdfUrl
TimerGrid(t) == validateGridConfig(t.settings.rows, t.settings.cols, Len(t.images), orientation)

\* C29: no generation is started for more than MAX_PAGES_ERROR pages.  A
\* pending Generate click carries a configuration without grid errors, a
\* pending auto-generation carries fewer than 40 images, the page count of
\* the App is at most 200 in every state, and every pending or running
\* generation is for at most MAX_PAGES_ERROR pages.
C29_PageLimit ==
  /\ AppPageCount(Len(loadedImages), settings.rows, settings.cols) <= MAX_FILE_COUNT
  /\ \A n \in DOMAIN timers :
       /\ TimerGrid(timers[n]).pageCount <= MAX_PAGES_ERROR
       /\ timers[n].kind = "auto" => Len(timers[n].images) < 40
       /\ timers[n].kind = "click" => TimerGrid(timers[n]).errors = <<>>
  /\ Invoked => PageCountOf(Len(images), rows * cols) <= MAX_PAGES_ERROR

\* A generation of 200 pages begins: 200 images on a grid of one cell
C29_Witness ==
  /\ pc = "start"
  /\ rows * cols = 1
  /\ PageCountOf(Len(images), rows * cols) = MAX_FILE_COUNT

\* The addImage commands of page p (1-based)
ImagesOn(p) == {m \in DOMAIN doc.cmds : IsImage(doc.cmds[m]) /\ doc.cmds[m].page = p}

\* The rectangles of a and b do not overlap: one ends where the other
\* begins or before, in x or in y
Apart(a, b) ==
  \/ FLe(FAdd(a.x, a.w), b.x)
  \/ FLe(FAdd(b.x, b.w), a.x)
  \/ FLe(FAdd(a.y, a.h), b.y)
  \/ FLe(FAdd(b.y, b.h), a.y)

\* The rectangle of c lies in [margin, pageW - margin] x [margin, pageH - margin],
\* up to tol
InsideUsable(c, tol) ==
  /\ FLe(FSub(Num(MARGIN_MM), tol), c.x)
  /\ FLe(FSub(Num(MARGIN_MM), tol), c.y)
  /\ FLe(FAdd(c.x, c.w), FAdd(Num(PageSize(orientation).width - MARGIN_MM), tol))
  /\ FLe(FAdd(c.y, c.h), FAdd(Num(PageSize(orientation).height - MARGIN_MM), tol))

\* C30 as stated: on every page of a generated document the render
\* rectangles of two distinct images do not overlap, and every render
\* rectangle lies inside [margin, pageW - margin] x [margin, pageH - margin].
C30_DisjointInsideUsable ==
  pc = "done" =>
    \A p \in 1..doc.pages : \A m \in ImagesOn(p) :
      /\ InsideUsable(doc.cmds[m], Zero)
      /\ \A n \in ImagesOn(p) : m # n => Apart(doc.cmds[m], doc.cmds[n])

\* C30 as amended: the render rectangles of two distinct images of a page do
\* not overlap, and every render rectangle lies inside the usable area up to
\* the floating tolerance.
C30_DisjointInsideUsableTolerance ==
  pc = "done" =>
    \A p \in 1..doc.pages : \A m \in ImagesOn(p) :
      /\ InsideUsable(doc.cmds[m], Tolerance)
      /\ \A n \in ImagesOn(p) : m # n => Apart(doc.cmds[m], doc.cmds[n])

\* A generated page with four images, the first of which begins left of the
\* margin by a rounding error
C30_Witness ==
  /\ pc = "done"
  /\ Cardinality(ImagesOn(1)) = 4
  /\ \E m \in ImagesOn(1) : FLt(doc.cmds[m].x, Num(MARGIN_MM))

====
